---- MODULE Spec2Model ----
(***************************************************************************)
(* Derivation engine of the Vedic Jyotish chart API: sign / nakshatra      *)
(* locator, house resolver, divisional charts, Vimshottari dasha,          *)
(* ashtakavarga and panchanga.                                             *)
(*                                                                         *)
(* Numbers.  The source computes on IEEE doubles.  Here a longitude is an  *)
(* integer count of 1/DegreeUnits degree and every quotient the source     *)
(* floors, truncates or rounds is computed exactly (cross-multiplied, or   *)
(* on the arbitrary-precision naturals below), so int(), % and round()     *)
(* act on the exact rational value of the expression they are applied to.  *)
(***************************************************************************)
EXTENDS Integers, Sequences, FiniteSets, TLC

\* Resolution of a longitude: units per degree.
DegreeUnits == 42000

\* 360 degrees in units.
FullCircle == 360 * DegreeUnits

(***************************************************************************)
(* Arbitrary-precision naturals: little-endian sequences of base-Limb      *)
(* limbs without a leading zero limb; zero is the empty sequence.          *)
(***************************************************************************)
Limb == 1000

RECURSIVE BigFromInt(_)
BigFromInt(n) == IF n = 0 THEN <<>> ELSE <<n % Limb>> \o BigFromInt(n \div Limb)

RECURSIVE BigToInt(_)
BigToInt(a) == IF a = <<>> THEN 0 ELSE Head(a) + Limb * BigToInt(Tail(a))

RECURSIVE BigMulCarry(_, _, _)
BigMulCarry(a, m, carry) ==
    IF a = <<>> THEN BigFromInt(carry)
    ELSE LET t == Head(a) * m + carry
         IN  <<t % Limb>> \o BigMulCarry(Tail(a), m, t \div Limb)

\* a * m for a small m (m * Limb fits a machine integer).
BigMulSmall(a, m) == IF m = 0 THEN <<>> ELSE BigMulCarry(a, m, 0)

RECURSIVE BigAddCarry(_, _, _)
BigAddCarry(a, b, carry) ==
    IF a = <<>> /\ b = <<>> THEN BigFromInt(carry)
    ELSE LET x == IF a = <<>> THEN 0 ELSE Head(a)
             y == IF b = <<>> THEN 0 ELSE Head(b)
             t == x + y + carry
         IN  <<t % Limb>> \o BigAddCarry(IF a = <<>> THEN <<>> ELSE Tail(a),
                                         IF b = <<>> THEN <<>> ELSE Tail(b),
                                         t \div Limb)

BigAdd(a, b) == BigAddCarry(a, b, 0)

RECURSIVE BigStrip(_)
BigStrip(a) ==
    IF a = <<>> THEN <<>>
    ELSE IF a[Len(a)] = 0 THEN BigStrip(SubSeq(a, 1, Len(a) - 1)) ELSE a

\* Long division by a small d, most significant limb first:
\* [q |-> floor(a / d), r |-> a mod d].
RECURSIVE BigDivLimbs(_, _, _, _, _)
BigDivLimbs(a, d, i, r, q) ==
    IF i = 0 THEN [q |-> BigStrip(q), r |-> r]
    ELSE LET t == r * Limb + a[i]
         IN  BigDivLimbs(a, d, i - 1, t % d, <<t \div d>> \o q)

BigDivSmall(a, d) == BigDivLimbs(a, d, Len(a), 0, <<>>)

BigIsOdd(a) == BigDivSmall(a, 2).r = 1

\* Division by the product of the small divisors ds, one after the other:
\* [q |-> floor(a / product), exact |-> the product divides a].
RECURSIVE BigDivAll(_, _, _)
BigDivAll(a, ds, exact) ==
    IF ds = <<>> THEN [q |-> a, exact |-> exact]
    ELSE LET s == BigDivSmall(a, Head(ds))
         IN  BigDivAll(s.q, Tail(ds), exact /\ s.r = 0)

\* round(p / product of ds) to the nearest integer, ties to the even one
\* (Python's round and timedelta both round half to even; where the exact
\* value is a tie, the source rounds the double nearest to it, which may lie
\* on either side).
RoundHalfEven(p, ds) ==
    LET t == BigDivAll(BigMulSmall(p, 2), ds, TRUE)
        m == BigDivSmall(t.q, 2).q
    IN  IF ~BigIsOdd(t.q) THEN m
        ELSE IF t.exact /\ ~BigIsOdd(m) THEN m
        ELSE BigAdd(m, <<1>>)

(***************************************************************************)
(* constants/rashis.py, constants/nakshatras.py: sign / nakshatra locator  *)
(***************************************************************************)
\* int(): truncation toward zero of the quotient n / d, d > 0.
Trunc(n, d) == IF n >= 0 THEN n \div d ELSE -((-n) \div d)

longitude_to_rashi(longitude) == (Trunc(longitude, 30 * DegreeUnits) % 12) + 1

longitude_to_rashi_degree(longitude) == longitude % (30 * DegreeUnits)

\* NAKSHATRA_SPAN = 360 / 27 degrees: longitude / NAKSHATRA_SPAN is
\* 27 * longitude / FullCircle.
longitude_to_nakshatra(longitude) == (Trunc(27 * longitude, FullCircle) % 27) + 1

\* Faulty variant of longitude_to_pada: the quarter is counted from 0.
longitude_to_pada_from_zero(longitude) ==
    LET nak == longitude_to_nakshatra(longitude)
    IN  Trunc(108 * longitude - 4 * (nak - 1) * FullCircle, FullCircle) % 4

\* PADA_SPAN = 360 / 108 degrees; offset / PADA_SPAN with
\* offset = longitude - (nakshatra - 1) * NAKSHATRA_SPAN.
longitude_to_pada(longitude) ==
    LET nak == longitude_to_nakshatra(longitude)
    IN  (Trunc(108 * longitude - 4 * (nak - 1) * FullCircle, FullCircle) % 4) + 1

\* offset / NAKSHATRA_SPAN as the exact fraction num / den.
nakshatra_traversed_fraction(longitude) ==
    LET nak == longitude_to_nakshatra(longitude)
    IN  [num |-> 27 * longitude - (nak - 1) * FullCircle, den |-> FullCircle]

NAKSHATRA_LORDS ==
    << "Ketu", "Venus", "Sun", "Moon", "Mars", "Rahu", "Jupiter", "Saturn", "Mercury",
       "Ketu", "Venus", "Sun", "Moon", "Mars", "Rahu", "Jupiter", "Saturn", "Mercury",
       "Ketu", "Venus", "Sun", "Moon", "Mars", "Rahu", "Jupiter", "Saturn", "Mercury" >>

GRAHA_NAMES ==
    << "Sun", "Moon", "Mars", "Mercury", "Jupiter", "Venus", "Saturn", "Rahu", "Ketu" >>

(***************************************************************************)
(* calculations/bhavas.py: house resolver                                  *)
(***************************************************************************)
\* The scan of range(12) from index i (0-based); cusps is 1-based here.
\* Faulty variant of HouseScan: the interval that wraps around 360 degrees
\* asks for both conditions, which no longitude meets.
RECURSIVE HouseScanWrapBoth(_, _, _)
HouseScanWrapBoth(longitude, cusps, i) ==
    IF i = 12
    THEN Trunc((longitude - cusps[1]) % FullCircle, 30 * DegreeUnits) + 1
    ELSE LET cusp_start == cusps[i + 1]
             cusp_end   == cusps[((i + 1) % 12) + 1]
         IN  IF cusp_start < cusp_end
             THEN IF cusp_start <= longitude /\ longitude < cusp_end
                  THEN i + 1
                  ELSE HouseScanWrapBoth(longitude, cusps, i + 1)
             ELSE IF longitude >= cusp_start /\ longitude < cusp_end
                  THEN i + 1
                  ELSE HouseScanWrapBoth(longitude, cusps, i + 1)

\* Faulty variant of HouseScan: an interval is open at its cusp and closed at the
\* next one.
RECURSIVE HouseScanClosedAbove(_, _, _)
HouseScanClosedAbove(longitude, cusps, i) ==
    IF i = 12
    THEN    Trunc((longitude - cusps[1]) % FullCircle, 30 * DegreeUnits) + 1
    ELSE LET cusp_start == cusps[i + 1]
             cusp_end   == cusps[((i + 1) % 12) + 1]
         IN  IF cusp_start < cusp_end
             THEN IF cusp_start < longitude /\ longitude <= cusp_end
                  THEN i + 1
                  ELSE HouseScanClosedAbove(longitude, cusps, i + 1)
             ELSE IF longitude > cusp_start \/ longitude <= cusp_end
                  THEN i + 1
                  ELSE HouseScanClosedAbove(longitude, cusps, i + 1)

RECURSIVE HouseScan(_, _, _)
HouseScan(longitude, cusps, i) ==
    IF i = 12
    THEN \* Fallback: equal house from ascendant
         Trunc((longitude - cusps[1]) % FullCircle, 30 * DegreeUnits) + 1
    ELSE LET cusp_start == cusps[i + 1]
             cusp_end   == cusps[((i + 1) % 12) + 1]
         IN  IF cusp_start < cusp_end
             THEN IF cusp_start <= longitude /\ longitude < cusp_end
                  THEN i + 1
                  ELSE HouseScan(longitude, cusps, i + 1)
             ELSE IF longitude >= cusp_start \/ longitude < cusp_end
                  THEN i + 1
                  ELSE HouseScan(longitude, cusps, i + 1)

get_house_for_longitude(longitude, cusps) == HouseScan(longitude, cusps, 0)

\* compute_bhavas: the house number and the rashi of each of the 12 cusps
\* (names, lords and rounded longitudes follow from these by fixed tables).
compute_bhavas(cusp_list, ascendant) ==
    [ i \in 1..12 |-> [ house |-> i, rashi |-> longitude_to_rashi(cusp_list[i]) ] ]

(***************************************************************************)
(* calculations/lagna.py                                                   *)
(***************************************************************************)
\* compute_lagna: rashi, nakshatra and pada of the ascendant.
compute_lagna(ascendant) ==
    [ rashi     |-> longitude_to_rashi(ascendant),
      nakshatra |-> longitude_to_nakshatra(ascendant),
      pada      |-> longitude_to_pada(ascendant) ]

(***************************************************************************)
(* calculations/grahas.py                                                  *)
(***************************************************************************)
\* Faulty variant of is_retrograde: the nodes are judged by their speed like
\* every other body.
is_retrograde_by_speed_only(name, speed) == speed < 0

\* speed < 0 or name in ("Rahu", "Ketu")
is_retrograde(name, speed) == speed < 0 \/ name \in {"Rahu", "Ketu"}

compute_graha_positions(planet_positions, cusps) ==
    [ i \in 1..Len(GRAHA_NAMES) |->
        LET lon   == planet_positions[GRAHA_NAMES[i]].longitude
            speed == planet_positions[GRAHA_NAMES[i]].speed_long
        IN  [ graha      |-> GRAHA_NAMES[i],
              longitude  |-> lon,
              rashi      |-> longitude_to_rashi(lon),
              nakshatra  |-> longitude_to_nakshatra(lon),
              pada       |-> longitude_to_pada(lon),
              house      |-> get_house_for_longitude(lon, cusps),
              retrograde |-> is_retrograde(GRAHA_NAMES[i], speed),
              speed      |-> speed ] ]

(***************************************************************************)
(* calculations/divisional.py, constants/divisional_mappings.py            *)
(***************************************************************************)
\* Faulty variant of d1_sign: the sign index is not shifted to 1..12.
d1_sign_from_zero(longitude) == Trunc(longitude, 30 * DegreeUnits) % 12

d1_sign(longitude) == longitude_to_rashi(longitude)

d2_sign(longitude) ==
    LET rashi  == longitude_to_rashi(longitude)
        degree == longitude % (30 * DegreeUnits)
        is_odd == rashi % 2 = 1
    IN  IF degree < 15 * DegreeUnits
        THEN (IF is_odd THEN 5 ELSE 4)
        ELSE (IF is_odd THEN 4 ELSE 5)

d3_sign(longitude) ==
    LET rashi  == longitude_to_rashi(longitude)
        degree == longitude % (30 * DegreeUnits)
    IN  IF degree < 10 * DegreeUnits THEN rashi
        ELSE IF degree < 20 * DegreeUnits THEN ((rashi - 1 + 4) % 12) + 1
        ELSE ((rashi - 1 + 8) % 12) + 1

\* Faulty variant of d7_sign: an even sign counts from itself, as an odd one does.
d7_sign_even_from_same(longitude) ==
    LET rashi  == longitude_to_rashi(longitude)
        degree == longitude % (30 * DegreeUnits)
        part   == Trunc(7 * degree, 30 * DegreeUnits)
    IN  ((rashi - 1 + part) % 12) + 1

d7_sign(longitude) ==
    LET rashi  == longitude_to_rashi(longitude)
        degree == longitude % (30 * DegreeUnits)
        part   == Trunc(7 * degree, 30 * DegreeUnits)
        is_odd == rashi % 2 = 1
    IN  IF is_odd THEN ((rashi - 1 + part) % 12) + 1
        ELSE ((rashi - 1 + 6 + part) % 12) + 1

\* Faulty variant of d9_sign: the start signs of air and water are exchanged.
d9_sign_air_water_swapped(longitude) ==
    LET rashi  == longitude_to_rashi(longitude)
        degree == longitude % (30 * DegreeUnits)
        part   == Trunc(9 * degree, 30 * DegreeUnits)
        start  == IF rashi \in {1, 5, 9} THEN 1
                  ELSE IF rashi \in {2, 6, 10} THEN 10
                  ELSE IF rashi \in {3, 7, 11} THEN 4
                  ELSE 7
    IN  ((start - 1 + part) % 12) + 1

d9_sign(longitude) ==
    LET rashi  == longitude_to_rashi(longitude)
        degree == longitude % (30 * DegreeUnits)
        part   == Trunc(9 * degree, 30 * DegreeUnits)
        start  == IF rashi \in {1, 5, 9} THEN 1
                  ELSE IF rashi \in {2, 6, 10} THEN 10
                  ELSE IF rashi \in {3, 7, 11} THEN 7
                  ELSE 4
    IN  ((start - 1 + part) % 12) + 1

d10_sign(longitude) ==
    LET rashi  == longitude_to_rashi(longitude)
        degree == longitude % (30 * DegreeUnits)
        part   == Trunc(degree, 3 * DegreeUnits)
        is_odd == rashi % 2 = 1
    IN  IF is_odd THEN ((rashi - 1 + part) % 12) + 1
        ELSE ((rashi - 1 + 8 + part) % 12) + 1

d12_sign(longitude) ==
    LET rashi  == longitude_to_rashi(longitude)
        degree == longitude % (30 * DegreeUnits)
        part   == Trunc(2 * degree, 5 * DegreeUnits)
    IN  ((rashi - 1 + part) % 12) + 1

TRIMSAMSA_ODD ==
    << <<5, "Mars">>, <<5, "Saturn">>, <<8, "Jupiter">>, <<7, "Mercury">>, <<5, "Venus">> >>

TRIMSAMSA_EVEN ==
    << <<5, "Venus">>, <<7, "Mercury">>, <<8, "Jupiter">>, <<5, "Saturn">>, <<5, "Mars">> >>

TRIMSAMSA_SIGN(lord) ==
    CASE lord = "Mars"    -> 1
      [] lord = "Saturn"  -> 11
      [] lord = "Jupiter" -> 9
      [] lord = "Mercury" -> 3
      [] lord = "Venus"   -> 7

\* The loop over the spans of the table from span i on: the position of the
\* first span the degree is below the cumulative end of, or one past the
\* table when the loop falls through.
\* Faulty variant of TrimsamsaScan: a span is closed above, its end belongs to it.
RECURSIVE TrimsamsaScanClosedAbove(_, _, _, _)
TrimsamsaScanClosedAbove(degree, table, i, cumulative) ==
    IF i > Len(table)
    THEN i
    ELSE LET c == cumulative + table[i][1]
         IN  IF degree <= c * DegreeUnits
             THEN i
             ELSE TrimsamsaScanClosedAbove(degree, table, i + 1, c)

RECURSIVE TrimsamsaScan(_, _, _, _)
TrimsamsaScan(degree, table, i, cumulative) ==
    IF i > Len(table)
    THEN i
    ELSE LET c == cumulative + table[i][1]
         IN  IF degree < c * DegreeUnits
             THEN i
             ELSE TrimsamsaScan(degree, table, i + 1, c)

d30_sign(longitude) ==
    LET rashi  == longitude_to_rashi(longitude)
        degree == longitude % (30 * DegreeUnits)
        is_odd == rashi % 2 = 1
        table  == IF is_odd THEN TRIMSAMSA_ODD ELSE TRIMSAMSA_EVEN
        at     == TrimsamsaScan(degree, table, 1, 0)
    IN  IF at <= Len(table)
        THEN TRIMSAMSA_SIGN(table[at][2])
        ELSE \* Fallback (should not reach here)
             TRIMSAMSA_SIGN(table[Len(table)][2])

\* Faulty variant of d60_sign: the backward count of an even sign is not
\* wrapped around the zodiac.
d60_sign_backward_unwrapped(longitude) ==
    LET rashi  == longitude_to_rashi(longitude)
        degree == longitude % (30 * DegreeUnits)
        part   == Trunc(2 * degree, DegreeUnits)
        is_odd == rashi % 2 = 1
    IN  IF is_odd THEN ((rashi - 1 + part) % 12) + 1
        ELSE (rashi - 1 - part) + 1

\* Faulty variant of d60_sign: an even sign counts forward, as an odd one does.
d60_sign_even_forward(longitude) ==
    LET rashi  == longitude_to_rashi(longitude)
        degree == longitude % (30 * DegreeUnits)
        part   == Trunc(2 * degree, DegreeUnits)
    IN  ((rashi - 1 + part) % 12) + 1

d60_sign(longitude) ==
    LET rashi  == longitude_to_rashi(longitude)
        degree == longitude % (30 * DegreeUnits)
        part   == Trunc(2 * degree, DegreeUnits)
        is_odd == rashi % 2 = 1
    IN  IF is_odd THEN ((rashi - 1 + part) % 12) + 1
        ELSE ((rashi - 1 - part) % 12) + 1

\* The keys of the dispatcher, in insertion order.
DIVISIONAL_TYPES == << "D1", "D2", "D3", "D7", "D9", "D10", "D12", "D30", "D60" >>

DIVISIONAL_FUNCS(chart_type, longitude) ==
    CASE chart_type = "D1"  -> d1_sign(longitude)
      [] chart_type = "D2"  -> d2_sign(longitude)
      [] chart_type = "D3"  -> d3_sign(longitude)
      [] chart_type = "D7"  -> d7_sign(longitude)
      [] chart_type = "D9"  -> d9_sign(longitude)
      [] chart_type = "D10" -> d10_sign(longitude)
      [] chart_type = "D12" -> d12_sign(longitude)
      [] chart_type = "D30" -> d30_sign(longitude)
      [] chart_type = "D60" -> d60_sign(longitude)

\* The chart of a supported type: the body of compute_divisional_chart after
\* the type has been looked up.
DivisionalChartOf(planet_positions, ascendant_longitude, chart_type) ==
    [ chart_type |-> chart_type,
      lagna      |-> [rashi |-> DIVISIONAL_FUNCS(chart_type, ascendant_longitude)],
      grahas     |-> [ i \in 1..Len(GRAHA_NAMES) |->
                         [ graha |-> GRAHA_NAMES[i],
                           rashi |-> DIVISIONAL_FUNCS(chart_type,
                                        planet_positions[GRAHA_NAMES[i]].longitude) ] ] ]

\* The keys of _DIVISIONAL_FUNCS.
SupportedChartTypes == { DIVISIONAL_TYPES[k] : k \in 1..Len(DIVISIONAL_TYPES) }

\* Faulty variant of compute_divisional_chart: a type that is not in the
\* dispatcher falls back to the default chart, D9.
compute_divisional_chart_default_d9(planet_positions, ascendant_longitude, chart_type) ==
    DivisionalChartOf(planet_positions, ascendant_longitude,
                      IF chart_type \in SupportedChartTypes THEN chart_type ELSE "D9")

\* func = _DIVISIONAL_FUNCS.get(chart_type); a ValueError when there is none.
\* A raised exception is a record with the field "error".
compute_divisional_chart(planet_positions, ascendant_longitude, chart_type) ==
    IF chart_type \notin SupportedChartTypes
    THEN [ error  |-> "ValueError",
           detail |-> << "Unsupported divisional chart", chart_type >> ]
    ELSE DivisionalChartOf(planet_positions, ascendant_longitude, chart_type)

compute_all_divisional_charts(planet_positions, ascendant_longitude) ==
    [ k \in 1..Len(DIVISIONAL_TYPES) |->
        compute_divisional_chart(planet_positions, ascendant_longitude,
                                 DIVISIONAL_TYPES[k]) ]

(***************************************************************************)
(* constants/ashtakavarga_tables.py, calculations/ashtakavarga.py          *)
(***************************************************************************)
BINDU_TABLES ==
  [Sun |->
        [Sun     |-> <<1, 2, 4, 7, 8, 9, 10, 11>>,
           Moon    |-> <<3, 6, 10, 11>>,
           Mars    |-> <<1, 2, 4, 7, 8, 9, 10, 11>>,
           Mercury |-> <<3, 5, 6, 9, 10, 11, 12>>,
           Jupiter |-> <<5, 6, 9, 11>>,
           Venus   |-> <<6, 7, 12>>,
           Saturn  |-> <<1, 2, 4, 7, 8, 9, 10, 11>>,
           Lagna   |-> <<3, 4, 6, 10, 11, 12>> ],
       Moon |->
        [Sun     |-> <<3, 6, 7, 8, 10, 11>>,
           Moon    |-> <<1, 3, 6, 7, 10, 11>>,
           Mars    |-> <<2, 3, 5, 6, 9, 10, 11>>,
           Mercury |-> <<1, 3, 4, 5, 7, 8, 10, 11>>,
           Jupiter |-> <<1, 4, 7, 8, 10, 11, 12>>,
           Venus   |-> <<3, 4, 5, 7, 9, 10, 11>>,
           Saturn  |-> <<3, 5, 6, 11>>,
           Lagna   |-> <<3, 6, 10, 11>> ],
       Mars |->
        [Sun     |-> <<3, 5, 6, 10, 11>>,
           Moon    |-> <<3, 6, 11>>,
           Mars    |-> <<1, 2, 4, 7, 8, 10, 11>>,
           Mercury |-> <<3, 5, 6, 11>>,
           Jupiter |-> <<6, 10, 11, 12>>,
           Venus   |-> <<6, 8, 11, 12>>,
           Saturn  |-> <<1, 4, 7, 8, 9, 10, 11>>,
           Lagna   |-> <<1, 3, 6, 10, 11>> ],
       Mercury |->
        [Sun     |-> <<5, 6, 9, 11, 12>>,
           Moon    |-> <<2, 4, 6, 8, 10, 11>>,
           Mars    |-> <<1, 2, 4, 7, 8, 9, 10, 11>>,
           Mercury |-> <<1, 3, 5, 6, 9, 10, 11, 12>>,
           Jupiter |-> <<6, 8, 11, 12>>,
           Venus   |-> <<1, 2, 3, 4, 5, 8, 9, 11>>,
           Saturn  |-> <<1, 2, 4, 7, 8, 9, 10, 11>>,
           Lagna   |-> <<1, 2, 4, 6, 8, 10, 11>> ],
       Jupiter |->
        [Sun     |-> <<1, 2, 3, 4, 7, 8, 9, 10, 11>>,
           Moon    |-> <<2, 5, 7, 9, 11>>,
           Mars    |-> <<1, 2, 4, 7, 8, 10, 11>>,
           Mercury |-> <<1, 2, 4, 5, 6, 9, 10, 11>>,
           Jupiter |-> <<1, 2, 3, 4, 7, 8, 10, 11>>,
           Venus   |-> <<2, 5, 6, 9, 10, 11>>,
           Saturn  |-> <<3, 5, 6, 12>>,
           Lagna   |-> <<1, 2, 4, 5, 6, 7, 9, 10, 11>> ],
       Venus |->
        [Sun     |-> <<8, 11, 12>>,
           Moon    |-> <<1, 2, 3, 4, 5, 8, 9, 11, 12>>,
           Mars    |-> <<3, 4, 6, 8, 9, 11, 12>>,
           Mercury |-> <<3, 5, 6, 9, 11>>,
           Jupiter |-> <<5, 8, 9, 10, 11>>,
           Venus   |-> <<1, 2, 3, 4, 5, 8, 9, 10, 11>>,
           Saturn  |-> <<3, 4, 5, 8, 9, 10, 11>>,
           Lagna   |-> <<1, 2, 3, 4, 5, 8, 9>> ],
       Saturn |->
        [Sun     |-> <<1, 2, 4, 7, 8, 10, 11>>,
           Moon    |-> <<3, 6, 11>>,
           Mars    |-> <<3, 5, 6, 10, 11, 12>>,
           Mercury |-> <<6, 8, 9, 10, 11, 12>>,
           Jupiter |-> <<5, 6, 11, 12>>,
           Venus   |-> <<6, 11, 12>>,
           Saturn  |-> <<3, 5, 6, 11>>,
           Lagna   |-> <<1, 3, 4, 6, 10, 11>> ] ]

\* The 7 planets that contribute to Ashtakavarga (Rahu/Ketu excluded)
ASHTAKAVARGA_PLANETS ==
    << "Sun", "Moon", "Mars", "Mercury", "Jupiter", "Venus", "Saturn" >>

\* The reference points of a bindu table, in the order of its keys.
BINDU_REFERENCES ==
    << "Sun", "Moon", "Mars", "Mercury", "Jupiter", "Venus", "Saturn", "Lagna" >>

\* Faulty variant of rashi_positions: Saturn's place is read from Rahu, the
\* eighth body of the ephemeris.
rashi_positions_with_node(planet_positions, ascendant_longitude) ==
    [ ref \in { BINDU_REFERENCES[i] : i \in 1..Len(BINDU_REFERENCES) } |->
        IF ref = "Lagna"
        THEN longitude_to_rashi(ascendant_longitude)
        ELSE IF ref = "Saturn"
        THEN longitude_to_rashi(planet_positions["Rahu"].longitude)
        ELSE longitude_to_rashi(planet_positions[ref].longitude) ]

rashi_positions(planet_positions, ascendant_longitude) ==
    [ ref \in { BINDU_REFERENCES[i] : i \in 1..Len(BINDU_REFERENCES) } |->
        IF ref = "Lagna"
        THEN longitude_to_rashi(ascendant_longitude)
        ELSE longitude_to_rashi(planet_positions[ref].longitude) ]

\* Faulty variant of target_rashi: the count is not wrapped around the zodiac.
target_rashi_unwrapped(ref_rashi, house) == (ref_rashi - 1 + house - 1) + 1

\* The rashi that lies `house` signs from ref_rashi.
target_rashi(ref_rashi, house) == ((ref_rashi - 1 + house - 1) % 12) + 1

\* Faulty variant of planet_bindus: the ascendant's row of the table is skipped.
planet_bindus_without_lagna(planet, positions) ==
    LET bindu_table == BINDU_TABLES[planet]
    IN  [ r \in 1..12 |->
            Cardinality({ e \in UNION { { <<ref, j>> : j \in 1..Len(bindu_table[ref]) } :
                                        ref \in DOMAIN bindu_table \ {"Lagna"} } :
                          ((positions[e[1]] - 1 + bindu_table[e[1]][e[2]] - 1) % 12) + 1
                              = r }) ]

\* bindus[r] of one planet: one increment per (reference, listed house) whose
\* target is r.
planet_bindus(planet, positions) ==
    LET bindu_table == BINDU_TABLES[planet]
    IN  [ r \in 1..12 |->
            Cardinality({ e \in UNION { { <<ref, j>> : j \in 1..Len(bindu_table[ref]) } :
                                        ref \in DOMAIN bindu_table } :
                          target_rashi(positions[e[1]], bindu_table[e[1]][e[2]]) = r }) ]

compute_bhinnashtakavarga(planet_positions, ascendant_longitude) ==
    LET positions == rashi_positions(planet_positions, ascendant_longitude)
    IN  [ planet \in { ASHTAKAVARGA_PLANETS[i] : i \in 1..Len(ASHTAKAVARGA_PLANETS) } |->
            planet_bindus(planet, positions) ]

RECURSIVE SumOver(_, _, _)
SumOver(f, keys, i) ==
    IF keys = <<>> THEN 0 ELSE f[Head(keys)][i] + SumOver(f, Tail(keys), i)

\* The planets of bav in insertion order.
BavKeys(bav) == SelectSeq(ASHTAKAVARGA_PLANETS, LAMBDA p : p \in DOMAIN bav)

compute_sarvashtakavarga(bav) ==
    [ i \in 1..12 |-> SumOver(bav, BavKeys(bav), i) ]

RECURSIVE SeqSum(_)
SeqSum(s) == IF s = <<>> THEN 0 ELSE Head(s) + SeqSum(Tail(s))

(***************************************************************************)
(* constants/dashas.py, calculations/dasha.py: Vimshottari dasha           *)
(*                                                                         *)
(* A duration in years is the exact rational num / (product of divs), kept *)
(* as [num, divs]: the traversed fraction brings in the divisors of        *)
(* FullCircle, each subdivision brings in VIMSHOTTARI_TOTAL_YEARS.         *)
(* An instant is a count of microseconds (the resolution of datetime and   *)
(* timedelta); isoformat() is one-to-one on instants, so the "start" and   *)
(* "end" strings are compared through the instants they print.             *)
(***************************************************************************)
VIMSHOTTARI_TOTAL_YEARS == 120

DASHA_ORDER ==
    << "Ketu", "Venus", "Sun", "Moon", "Mars", "Rahu", "Jupiter", "Saturn", "Mercury" >>

DASHA_DURATIONS ==
    [ Ketu |-> 7, Venus |-> 20, Sun |-> 6, Moon |-> 10, Mars |-> 7,
      Rahu |-> 18, Jupiter |-> 16, Saturn |-> 19, Mercury |-> 17 ]

\* DASHA_ORDER.index(lord), 0-based.
DashaIndex(lord) == (CHOOSE i \in 1..Len(DASHA_ORDER) : DASHA_ORDER[i] = lord) - 1

\* An integer number of years as a duration.
WholeYears(n) == [num |-> BigFromInt(n), divs |-> <<>>]

\* round(years, 4), as a count of 1/10000 year.
Round4(years) ==
    BigToInt(RoundHalfEven(BigMulSmall(years.num, 10000), years.divs))

\* timedelta(days=_years_to_days(years)): years * 365.25 days of 86400 * 10^6
\* microseconds each, rounded to the microsecond.
years_to_timedelta(years) ==
    RoundHalfEven(BigMulSmall(BigMulSmall(BigMulSmall(years.num, 315576), 10000), 10000),
                  years.divs)

\* Faulty variant of get_dasha_start_index: the 1-based nakshatra number is used as a
\* 0-based index into the cycle.
get_dasha_start_index_off_by_one(moon_longitude) ==
    longitude_to_nakshatra(moon_longitude) % 9

get_dasha_start_index(moon_longitude) ==
    DashaIndex(NAKSHATRA_LORDS[longitude_to_nakshatra(moon_longitude)])

\* Faulty variant of SubDuration: the share is taken of 100 years, not of the cycle.
SubDurationOfHundred(maha_duration_years, sub_lord) ==
    [ num  |-> BigMulSmall(maha_duration_years.num, DASHA_DURATIONS[sub_lord]),
      divs |-> Append(maha_duration_years.divs, 100) ]

\* (maha_duration_years * DASHA_DURATIONS[sub_lord]) / VIMSHOTTARI_TOTAL_YEARS
SubDuration(maha_duration_years, sub_lord) ==
    [ num  |-> BigMulSmall(maha_duration_years.num, DASHA_DURATIONS[sub_lord]),
      divs |-> Append(maha_duration_years.divs, VIMSHOTTARI_TOTAL_YEARS) ]

\* The loop of _compute_sub_periods from cycle_offset on.
\* Faulty variant of SubPeriodLoop: a period is divided again while one level
\* remains, so the tree is one level deeper than asked for.
RECURSIVE SubPeriodLoopDividingLeaves(_, _, _, _, _)
SubPeriodLoopDividingLeaves(start_idx, cycle_offset, current_date, maha_duration_years, remaining_levels) ==
    IF cycle_offset = 9 THEN <<>>
    ELSE LET idx      == (start_idx + cycle_offset) % 9
             sub_lord == DASHA_ORDER[idx + 1]
             sub_duration_years == SubDuration(maha_duration_years, sub_lord)
             end_date == BigAdd(current_date, years_to_timedelta(sub_duration_years))
             base == [ lord           |-> sub_lord,
                       start          |-> current_date,
                       end            |-> end_date,
                       duration_years |-> Round4(sub_duration_years) ]
             sub_period ==
                 IF remaining_levels >= 1
                 THEN [ lord            |-> base.lord,
                        start           |-> base.start,
                        end             |-> base.end,
                        duration_years  |-> base.duration_years,
                        pratyantardasha |->
                            SubPeriodLoopDividingLeaves(DashaIndex(sub_lord), 0, current_date,
                                          sub_duration_years, remaining_levels - 1) ]
                 ELSE base
         IN  <<sub_period>> \o
             SubPeriodLoopDividingLeaves(start_idx, cycle_offset + 1, end_date,
                           maha_duration_years, remaining_levels)

RECURSIVE SubPeriodLoop(_, _, _, _, _)
SubPeriodLoop(start_idx, cycle_offset, current_date, maha_duration_years, remaining_levels) ==
    IF cycle_offset = 9 THEN <<>>
    ELSE LET idx      == (start_idx + cycle_offset) % 9
             sub_lord == DASHA_ORDER[idx + 1]
             sub_duration_years == SubDuration(maha_duration_years, sub_lord)
             end_date == BigAdd(current_date, years_to_timedelta(sub_duration_years))
             base == [ lord           |-> sub_lord,
                       start          |-> current_date,
                       end            |-> end_date,
                       duration_years |-> Round4(sub_duration_years) ]
             sub_period ==
                 IF remaining_levels >= 2
                 THEN [ lord            |-> base.lord,
                        start           |-> base.start,
                        end             |-> base.end,
                        duration_years  |-> base.duration_years,
                        pratyantardasha |->
                            SubPeriodLoop(DashaIndex(sub_lord), 0, current_date,
                                          sub_duration_years, remaining_levels - 1) ]
                 ELSE base
         IN  <<sub_period>> \o
             SubPeriodLoop(start_idx, cycle_offset + 1, end_date,
                           maha_duration_years, remaining_levels)

\* Faulty variant of compute_sub_periods: the sub-periods start from the
\* head of the cycle, not from the lord of the period they divide.
compute_sub_periods_from_ketu(maha_lord, start_date, maha_duration_years, remaining_levels) ==
    SubPeriodLoop(0, 0, start_date, maha_duration_years, remaining_levels)

\* Faulty variant of compute_sub_periods: the depth left is not counted down
\* for the level that is being computed.
compute_sub_periods_one_deeper(maha_lord, start_date, maha_duration_years, remaining_levels) ==
    SubPeriodLoop(DashaIndex(maha_lord), 0, start_date, maha_duration_years,
                  remaining_levels + 1)

compute_sub_periods(maha_lord, start_date, maha_duration_years, remaining_levels) ==
    SubPeriodLoop(DashaIndex(maha_lord), 0, start_date, maha_duration_years,
                  remaining_levels)

\* Faulty variant of MahadashaLoop: the next period starts one reported (rounded)
\* duration after the start of this one instead of at its end.
RECURSIVE MahadashaLoopFromRounded(_, _, _, _, _)
MahadashaLoopFromRounded(start_idx, cycle_offset, current_date, first_balance_years, levels) ==
    IF cycle_offset = 9 THEN <<>>
    ELSE LET idx  == (start_idx + cycle_offset) % 9
             lord == DASHA_ORDER[idx + 1]
             duration_years == IF cycle_offset = 0
                               THEN first_balance_years
                               ELSE WholeYears(DASHA_DURATIONS[lord])
             end_date == BigAdd(current_date, years_to_timedelta(duration_years))
             rounded  == [ num  |-> BigFromInt(Round4(duration_years)),
                           divs |-> <<10000>> ]
             period == [ lord           |-> lord,
                         start          |-> current_date,
                         end            |-> end_date,
                         duration_years |-> Round4(duration_years) ]
         IN  <<period>> \o
             MahadashaLoopFromRounded(start_idx, cycle_offset + 1,
                                      BigAdd(current_date, years_to_timedelta(rounded)),
                                      first_balance_years, levels)

\* The loop of compute_mahadasha from cycle_offset on.
RECURSIVE MahadashaLoop(_, _, _, _, _)
MahadashaLoop(start_idx, cycle_offset, current_date, first_balance_years, levels) ==
    IF cycle_offset = 9 THEN <<>>
    ELSE LET idx  == (start_idx + cycle_offset) % 9
             lord == DASHA_ORDER[idx + 1]
             duration_years == IF cycle_offset = 0
                               THEN first_balance_years
                               ELSE WholeYears(DASHA_DURATIONS[lord])
             end_date == BigAdd(current_date, years_to_timedelta(duration_years))
             base == [ lord           |-> lord,
                       start          |-> current_date,
                       end            |-> end_date,
                       duration_years |-> Round4(duration_years) ]
             period ==
                 IF levels >= 2
                 THEN [ lord           |-> base.lord,
                        start          |-> base.start,
                        end            |-> base.end,
                        duration_years |-> base.duration_years,
                        antardasha     |->
                            compute_sub_periods(lord, current_date, duration_years,
                                                levels - 1) ]
                 ELSE base
         IN  <<period>> \o
             MahadashaLoop(start_idx, cycle_offset + 1, end_date,
                           first_balance_years, levels)

\* Faulty variant of compute_mahadasha: the balance of the first period is taken of
\* the whole cycle (VIMSHOTTARI_TOTAL_YEARS), not of the first lord's years.
compute_mahadasha_balance_of_cycle(moon_longitude, birth_dt, levels) ==
    LET fraction_elapsed == nakshatra_traversed_fraction(moon_longitude)
        start_idx  == get_dasha_start_index(moon_longitude)
        first_balance_years ==
            [ num  |-> BigFromInt(VIMSHOTTARI_TOTAL_YEARS *
                                  (fraction_elapsed.den - fraction_elapsed.num)),
              divs |-> <<360, DegreeUnits>> ]
    IN  MahadashaLoop(start_idx, 0, birth_dt, first_balance_years, levels)

\* Faulty variant of compute_mahadasha: the first period gets the part of
\* the nakshatra already traversed, not the part that remains.
compute_mahadasha_elapsed_balance(moon_longitude, birth_dt, levels) ==
    LET fraction_elapsed == nakshatra_traversed_fraction(moon_longitude)
        start_idx  == get_dasha_start_index(moon_longitude)
        first_lord == DASHA_ORDER[start_idx + 1]
        first_balance_years ==
            [ num  |-> BigFromInt(DASHA_DURATIONS[first_lord] * fraction_elapsed.num),
              divs |-> <<360, DegreeUnits>> ]
    IN  MahadashaLoop(start_idx, 0, birth_dt, first_balance_years, levels)

compute_mahadasha(moon_longitude, birth_dt, levels) ==
    LET fraction_elapsed == nakshatra_traversed_fraction(moon_longitude)
        start_idx  == get_dasha_start_index(moon_longitude)
        first_lord == DASHA_ORDER[start_idx + 1]
        full_duration_years == DASHA_DURATIONS[first_lord]
        \* full_duration_years * (1.0 - fraction_elapsed)
        first_balance_years ==
            [ num  |-> BigFromInt(full_duration_years *
                                  (fraction_elapsed.den - fraction_elapsed.num)),
              divs |-> <<360, DegreeUnits>> ]
    IN  MahadashaLoop(start_idx, 0, birth_dt, first_balance_years, levels)

(***************************************************************************)
(* calculations/panchanga.py                                               *)
(*                                                                         *)
(* A Julian Day and a timezone offset are integer counts of 1/HourUnits    *)
(* hour.                                                                   *)
(***************************************************************************)
\* Resolution of an instant: units per hour.
HourUnits == 4

DayUnits == 24 * HourUnits

VARA_ENGLISH ==
    << "Sunday", "Monday", "Tuesday", "Wednesday", "Thursday", "Friday", "Saturday" >>

\* Faulty variant of TITHI_NAMES: the 15 names of the bright half repeated for the
\* dark half, the new moon named as the full moon.
TITHI_NAMES_repeated_twice ==
    << "Pratipada", "Dwitiya", "Tritiya", "Chaturthi", "Panchami",
       "Shashthi", "Saptami", "Ashtami", "Navami", "Dashami",
       "Ekadashi", "Dwadashi", "Trayodashi", "Chaturdashi", "Purnima",
       "Pratipada", "Dwitiya", "Tritiya", "Chaturthi", "Panchami",
       "Shashthi", "Saptami", "Ashtami", "Navami", "Dashami",
       "Ekadashi", "Dwadashi", "Trayodashi", "Chaturdashi", "Purnima" >>

TITHI_NAMES ==
    << "Pratipada", "Dwitiya", "Tritiya", "Chaturthi", "Panchami",
       "Shashthi", "Saptami", "Ashtami", "Navami", "Dashami",
       "Ekadashi", "Dwadashi", "Trayodashi", "Chaturdashi", "Purnima",
       "Pratipada", "Dwitiya", "Tritiya", "Chaturthi", "Panchami",
       "Shashthi", "Saptami", "Ashtami", "Navami", "Dashami",
       "Ekadashi", "Dwadashi", "Trayodashi", "Chaturdashi", "Amavasya" >>

KARANA_FIXED == << "Kimstughna", "Shakuni", "Chatushpada", "Nagava" >>

KARANA_REPEATING ==
    << "Bava", "Balava", "Kaulava", "Taitila", "Gara", "Vanija", "Vishti" >>

\* Faulty variant of local_midnight_ut: the sunrise is searched from the midnight
\* (UT) of the UT date, jd - (jd % 1) + 0.5.
ut_midnight(jd, tz_offset) == jd - (jd % DayUnits) + (DayUnits \div 2)

\* local_midnight_jd - tz_offset / 24.0 with
\* local_midnight_jd = int(local_jd + 0.5) - 0.5: the instant (UT) from which
\* compute_panchanga asks the ephemeris for the sunrise.
local_midnight_ut(jd, tz_offset) ==
    LET local_jd == jd + tz_offset
        local_midnight_jd ==
            Trunc(2 * local_jd + DayUnits, 2 * DayUnits) * DayUnits - (DayUnits \div 2)
    IN  local_midnight_jd - tz_offset

\* Faulty variant of vara_index: a birth at the very instant of sunrise still belongs
\* to the previous day.
vara_index_at_sunrise_previous(jd, tz_offset, sunrise_jd) ==
    LET local_jd == jd + tz_offset
        vara_jd  == IF jd <= sunrise_jd THEN local_jd - DayUnits ELSE local_jd
    IN  Trunc(2 * vara_jd + 3 * DayUnits, 2 * DayUnits) % 7

\* The weekday index of the sunrise-to-sunrise day of the birth.
vara_index(jd, tz_offset, sunrise_jd) ==
    LET local_jd == jd + tz_offset
        vara_jd  == IF jd < sunrise_jd THEN local_jd - DayUnits ELSE local_jd
    IN  \* int(vara_jd + 1.5) % 7
        Trunc(2 * vara_jd + 3 * DayUnits, 2 * DayUnits) % 7

\* A longitude as the double it is: whole units and units in the last place.
Double(position) == [ units |-> position.longitude, ulps |-> position.longitude_ulps ]

\* (moon_longitude - sun_longitude) % 360 in double precision, in whole
\* units.  Python gives x % 360 the sign of 360: a negative remainder r
\* becomes r + 360.0.  When the Moon is only units in the last place behind
\* the Sun, r is at most 2^-45 for longitudes below 256 degrees and the sum
\* rounds to 360.0 itself; from 256 degrees on r is 2^-44 or more and the
\* sum is a double below 360.  Longitudes whole units apart differ by far
\* more than their last places, which then do not count.
float_moon_sun_diff(sun_longitude, moon_longitude) ==
    LET units == moon_longitude.units - sun_longitude.units
        ulps  == moon_longitude.ulps - sun_longitude.ulps
    IN  IF units = 0 /\ ulps < 0
        THEN IF sun_longitude.units < 256 * DegreeUnits
             THEN FullCircle
             ELSE FullCircle - 1
        ELSE units % FullCircle

\* Faulty variant of compute_panchanga: the karana index is taken of 12 degrees,
\* as the tithi index is.
compute_panchanga_karana_of_twelve(sun_longitude, moon_longitude, jd, tz_offset, sunrise_jd) ==
    LET moon_sun_diff == float_moon_sun_diff(sun_longitude, moon_longitude)
        tithi_num  == Trunc(moon_sun_diff, 12 * DegreeUnits)
        karana_num == Trunc(moon_sun_diff, 12 * DegreeUnits)
        karana_name ==
            IF karana_num = 0 THEN KARANA_FIXED[1]
            ELSE IF karana_num = 57 THEN KARANA_FIXED[2]
            ELSE IF karana_num = 58 THEN KARANA_FIXED[3]
            ELSE IF karana_num = 59 THEN KARANA_FIXED[4]
            ELSE KARANA_REPEATING[((karana_num - 1) % 7) + 1]
        yoga_sum == (sun_longitude.units + moon_longitude.units) % FullCircle
        yoga_num == Trunc(27 * yoga_sum, FullCircle)
        nak      == longitude_to_nakshatra(moon_longitude.units)
        vara_idx == vara_index(jd, tz_offset, sunrise_jd)
    IN  IF tithi_num + 1 \notin DOMAIN TITHI_NAMES
        THEN \* tithi_name = TITHI_NAMES[tithi_num]
             [ error |-> "IndexError", detail |-> "list index out of range" ]
        ELSE
        [ tithi     |-> [ number |-> tithi_num + 1,
                          name   |-> TITHI_NAMES[tithi_num + 1],
                          paksha |-> IF tithi_num < 15 THEN "Shukla" ELSE "Krishna" ],
          karana    |-> [ number |-> karana_num + 1, name |-> karana_name ],
          yoga      |-> [ number |-> yoga_num + 1 ],
          nakshatra |-> [ number |-> nak,
                          lord   |-> NAKSHATRA_LORDS[nak],
                          pada   |-> longitude_to_pada(moon_longitude.units) ],
          vara      |-> [ english |-> VARA_ENGLISH[vara_idx + 1] ] ]

\* compute_panchanga, given the sunrise the ephemeris answered.
\* sun_longitude and moon_longitude are doubles (Double).  A raised
\* exception is a record with the field "error".
compute_panchanga(sun_longitude, moon_longitude, jd, tz_offset, sunrise_jd) ==
    LET moon_sun_diff == float_moon_sun_diff(sun_longitude, moon_longitude)
        tithi_num  == Trunc(moon_sun_diff, 12 * DegreeUnits)
        karana_num == Trunc(moon_sun_diff, 6 * DegreeUnits)
        karana_name ==
            IF karana_num = 0 THEN KARANA_FIXED[1]
            ELSE IF karana_num = 57 THEN KARANA_FIXED[2]
            ELSE IF karana_num = 58 THEN KARANA_FIXED[3]
            ELSE IF karana_num = 59 THEN KARANA_FIXED[4]
            ELSE KARANA_REPEATING[((karana_num - 1) % 7) + 1]
        yoga_sum == (sun_longitude.units + moon_longitude.units) % FullCircle
        yoga_num == Trunc(27 * yoga_sum, FullCircle)
        nak      == longitude_to_nakshatra(moon_longitude.units)
        vara_idx == vara_index(jd, tz_offset, sunrise_jd)
    IN  IF tithi_num + 1 \notin DOMAIN TITHI_NAMES
        THEN \* tithi_name = TITHI_NAMES[tithi_num]
             [ error |-> "IndexError", detail |-> "list index out of range" ]
        ELSE
        [ tithi     |-> [ number |-> tithi_num + 1,
                          name   |-> TITHI_NAMES[tithi_num + 1],
                          paksha |-> IF tithi_num < 15 THEN "Shukla" ELSE "Krishna" ],
          karana    |-> [ number |-> karana_num + 1, name |-> karana_name ],
          yoga      |-> [ number |-> yoga_num + 1 ],
          nakshatra |-> [ number |-> nak,
                          lord   |-> NAKSHATRA_LORDS[nak],
                          pada   |-> longitude_to_pada(moon_longitude.units) ],
          vara      |-> [ english |-> VARA_ENGLISH[vara_idx + 1] ] ]

(***************************************************************************)
(* calculations/ephemeris.py: what the ephemeris provider hands over       *)
(***************************************************************************)
\* The bodies the ephemeris is asked for (Ketu is derived, not computed).
GRAHA_BODIES ==
    { "Sun", "Moon", "Mars", "Mercury", "Jupiter", "Venus", "Saturn", "Rahu" }

\* What swe.calc_ut answers for one body: any longitude in [0, 360), here
\* with the motion of a body that moves forward on the ecliptic.  A
\* longitude is a double: longitude counts whole units of 1/DegreeUnits
\* degree, longitude_ulps the units in the last place of the double that it
\* lies above that (0 or more, far less than a unit, so that rashi,
\* nakshatra, pada and every division are those of the whole units).  Latitudes
\* and longitudes are in 1/DegreeUnits degree, speeds in 1/1000000 degree a
\* day (the precision compute_graha_positions reports), distances in
\* 1/1000000 AU.
compute_planet_position(longitude) ==
    [ longitude  |-> longitude,
      longitude_ulps |-> 0,
      latitude   |-> 0,
      distance   |-> 1000000,
      speed_long |-> 985600,
      speed_lat  |-> 0,
      speed_dist |-> 0 ]

\* Faulty variant of compute_all_planets: Ketu is Rahu's record with the
\* longitude turned by 180 degrees, the latitude left as it is.
compute_all_planets_same_latitude(positions) ==
    [ name \in GRAHA_BODIES \cup {"Ketu"} |->
        IF name = "Ketu"
        THEN [ positions["Rahu"] EXCEPT
                 !.longitude = (@ + 180 * DegreeUnits) % FullCircle ]
        ELSE positions[name] ]

\* positions, completed with Ketu opposite Rahu.
compute_all_planets(positions) ==
    [ name \in GRAHA_BODIES \cup {"Ketu"} |->
        IF name = "Ketu"
        THEN LET rahu == positions["Rahu"]
             IN  [ longitude  |-> (rahu.longitude + 180 * DegreeUnits) % FullCircle,
                   longitude_ulps |-> rahu.longitude_ulps,
                   latitude   |-> -rahu.latitude,
                   distance   |-> rahu.distance,
                   speed_long |-> rahu.speed_long,
                   speed_lat  |-> rahu.speed_lat,
                   speed_dist |-> rahu.speed_dist ]
        ELSE positions[name] ]

\* The 12 cusps of the equal house system (DEFAULT_HOUSE_SYSTEM), 30 degrees
\* apart from the ascendant.
EqualHouseCusps(ascendant) ==
    [ i \in 1..12 |-> (ascendant + 30 * DegreeUnits * (i - 1)) % FullCircle ]

(***************************************************************************)
(* services/chart_service.py, routers/chart.py                             *)
(***************************************************************************)
\* The chart of one type for the positions and the ascendant the ephemeris
\* answered.
compute_single_divisional(planet_positions, ascendant_longitude, chart_type) ==
    compute_divisional_chart(planet_positions, ascendant_longitude, chart_type)

\* The answer of POST /api/v1/chart/divisional: the chart, or the
\* HTTPException(status_code=400) the handler turns every exception into.
get_divisional_chart(planet_positions, ascendant_longitude, chart_type) ==
    LET result == compute_single_divisional(planet_positions, ascendant_longitude,
                                            chart_type)
    IN  IF "error" \in DOMAIN result
        THEN [ status_code |-> 400, detail |-> result.detail ]
        ELSE [ status_code |-> 200, body |-> result ]

(***************************************************************************)
(* Inputs.  The ephemeris is an external collaborator: any longitudes,     *)
(* cusps and sunrise are possible answers.  The charts below are the       *)
(* reference births of tests/test_cross_validation.py; the sample sets     *)
(* place one body at a time on and next to every boundary the derivations  *)
(* distinguish.                                                            *)
(***************************************************************************)
\* sign (1..12), degree and arc minute as a longitude.
Dms(sign, deg, min) == ((sign - 1) * 30 + deg) * DegreeUnits + (min * DegreeUnits) \div 60

SaiSankalp ==
    [ lagna   |-> Dms(8, 12, 16),
      planets |-> [ Sun     |-> compute_planet_position(Dms(9, 10, 40)),
                    Moon    |-> compute_planet_position(Dms(10, 2, 54)),
                    Mars    |-> compute_planet_position(Dms(3, 28, 53)),
                    Mercury |-> compute_planet_position(Dms(8, 24, 46)),
                    Jupiter |-> compute_planet_position(Dms(6, 19, 10)),
                    Venus   |-> compute_planet_position(Dms(10, 26, 8)),
                    Saturn  |-> compute_planet_position(Dms(10, 21, 58)),
                    Rahu    |-> compute_planet_position(Dms(8, 26, 59)) ] ]

Chennai1975 ==
    [ lagna   |-> Dms(11, 15, 25),
      planets |-> [ Sun     |-> compute_planet_position(Dms(4, 23, 49)),
                    Moon    |-> compute_planet_position(Dms(6, 7, 21)),
                    Mars    |-> compute_planet_position(Dms(2, 3, 48)),
                    Mercury |-> compute_planet_position(Dms(5, 3, 22)),
                    Jupiter |-> compute_planet_position(Dms(1, 1, 9)),
                    Venus   |-> compute_planet_position(Dms(5, 17, 49)),
                    Saturn  |-> compute_planet_position(Dms(4, 2, 18)),
                    Rahu    |-> compute_planet_position(Dms(8, 3, 20)) ] ]

BaseCharts == { SaiSankalp, Chennai1975 }

\* base with one body (or the ascendant, "Lagna") moved to longitude.
MoveBody(base, body, longitude) ==
    IF body = "Lagna"
    THEN [base EXCEPT !.lagna = longitude]
    ELSE [base EXCEPT !.planets[body].longitude = longitude]

\* base with the motion of one body replaced.
WithMotion(base, body, latitude, distance, speed_long) ==
    [ base EXCEPT !.planets[body].latitude   = latitude,
                  !.planets[body].distance   = distance,
                  !.planets[body].speed_long = speed_long,
                  !.planets[body].speed_lat  = -latitude \div 100,
                  !.planets[body].speed_dist = speed_long \div 1000 ]

\* Latitudes south of, on and north of the ecliptic.
LatitudeSamples == { -5 * DegreeUnits, 0, 3 * DegreeUnits + 1 }

\* Distances of the Moon and of an outer planet, in 1/1000000 AU.
DistanceSamples == { 2570, 9500000 }

\* A body moving backward (the mean node's pace, and a retrograde planet's),
\* standing still and moving forward, in 1/1000000 degree a day.
SpeedSamples == { -52954, -1, 0, 1, 985600 }

\* base with one body the given units in the last place above its longitude.
WithUlps(base, body, ulps) == [ base EXCEPT !.planets[body].longitude_ulps = ulps ]

\* Lengths of the sample sets.
PadaCount == 108
NakshatraCount == 27

\* Every pada boundary (every rashi and nakshatra boundary is one), the unit
\* before it and the unit after it.
LonSamples ==
    { ((k * FullCircle) \div PadaCount + d) % FullCircle :
        k \in 0..(PadaCount - 1), d \in {-1, 0, 1} }

\* Every nakshatra boundary, the unit before it and the middle of the
\* nakshatra that starts there.
MoonSamples ==
    { ((k * FullCircle) \div NakshatraCount + d) % FullCircle :
        k \in 0..(NakshatraCount - 1), d \in {-1, 0, FullCircle \div (2 * NakshatraCount)} }

\* The longitude k/count of the circle, rounded down to a unit.
CircleFraction(k, count) ==
    ((k * 360) \div count) * DegreeUnits + (((k * 360) % count) * DegreeUnits) \div count

\* Lengths of the sample sets of the divisional charts.
ShashtiamsaCount == 720
SaptamsaCount == 84

\* Every boundary of the divisions of D2, D3, D10, D12, D30 and D60 (all fall
\* on half degrees) and of D7 (30/7 degrees), and the unit before each.
DivisionSamples ==
    { (CircleFraction(k, ShashtiamsaCount) + d) % FullCircle :
        k \in 0..(ShashtiamsaCount - 1), d \in {-1, 0} }
    \cup
    { (CircleFraction(k, SaptamsaCount) + d) % FullCircle :
        k \in 0..(SaptamsaCount - 1), d \in {-1, 0} }

\* Longitudes of the Sun: the start and the end of the zodiac, and one in
\* every binade of the doubles from 64 degrees up.
SunSamples ==
    { 0, 100 * DegreeUnits, 200 * DegreeUnits, 300 * DegreeUnits, FullCircle - 1 }

\* How far the Moon is ahead of the Sun: every karana boundary (every
\* second one is a tithi boundary), the unit before it and the unit after.
KaranaCount == 60
ElongationSamples ==
    { (CircleFraction(k, KaranaCount) + d) % FullCircle :
        k \in 0..(KaranaCount - 1), d \in {-1, 0, 1} }

\* One longitude in the middle of every rashi.
RashiSamples == { (30 * k + 15) * DegreeUnits : k \in 0..11 }

\* Widths of the 12 houses in degrees, for house systems with unequal
\* houses: opposite houses are equally wide and the 12 widths fill the circle.
HouseWidthSamples ==
    { << 20, 25, 45, 45, 25, 20, 20, 25, 45, 45, 25, 20 >>,
      << 1, 59, 30, 30, 30, 30, 1, 59, 30, 30, 30, 30 >> }

\* First cusps: on 0 degrees, one unit after it, one unit before it and
\* elsewhere, so that every one of the 12 intervals is the wrapping one for
\* some sample.
FirstCuspSamples ==
    { 0, 1, FullCircle - 1 } \cup { (30 * k + 17) * DegreeUnits : k \in 0..11 }

\* The sum of the first n widths.
RECURSIVE WidthSum(_, _)
WidthSum(widths, n) == IF n = 0 THEN 0 ELSE widths[n] + WidthSum(widths, n - 1)

\* The cusps of houses of the given widths from the first cusp on.
CuspsOfWidths(first_cusp, widths) ==
    [ i \in 1..12 |-> (first_cusp + WidthSum(widths, i - 1) * DegreeUnits) % FullCircle ]

\* Cusp lists the ephemeris does not promise to be ascending.
CuspValues == { 100 * DegreeUnits, 250 * DegreeUnits }

\* chart_type is any string: the supported types, and names the dispatcher
\* does not know (a varga that is not implemented, wrong case, a name, the
\* empty string).
ChartTypeSamples ==
    { "D1", "D2", "D3", "D7", "D9", "D10", "D12", "D30", "D60",
      "D4", "D16", "d9", "Navamsa", "" }

\* 1992-12-26T04:42:00, in microseconds since 0001-01-01T00:00:00.
BirthSamples == { <<0, 0, 720, 941, 860, 62>> }

\* The depths DashaRequest admits (ge=1, le=3).
MaxLevels == 3

\* A week of birth instants from 1992-12-25T12:00 UT (Julian Day 2448982.0).
JdStart == 2448982 * DayUnits
JdDays == 7
JdSamples == { JdStart + t : t \in 0..(JdDays * DayUnits - 1) }

\* Timezone offsets: UTC-8, UTC, UTC+5:30, UTC+12.
TzSamples == { -8 * HourUnits, 0, 5 * HourUnits + HourUnits \div 2, 12 * HourUnits }

\* Sunrise, local time after local midnight: 05:00, 06:45, 08:00.
SunriseSamples == { 5 * HourUnits, 6 * HourUnits + (3 * HourUnits) \div 4, 8 * HourUnits }

(***************************************************************************)
(* State                                                                   *)
(***************************************************************************)
VARIABLES
    planet_positions,     \* compute_all_planets(jd)
    ascendant_longitude,  \* ascmc[0]
    cusps,                \* compute_houses(...)[0]
    birth_dt,             \* birth instant, local time
    levels,               \* depth of the dasha tree
    jd,                   \* birth instant, UT
    tz_offset,
    chart_type,           \* DivisionalChartRequest.chart_type
    sunrise_jd,           \* what compute_sunrise answered
    computed,             \* the results computed so far
    grahas,
    divisional_charts,
    dasha,
    panchanga,
    bav,
    sav,
    response,             \* what the divisional endpoint answered
    lagna,                \* compute_lagna(ascendant_longitude)
    bhavas,               \* compute_bhavas(cusps, ascendant_longitude)
    pc,                   \* the call compute_full_chart makes next
    trace                 \* the calls made so far, in order

vars == << planet_positions, ascendant_longitude, cusps, birth_dt, levels, jd,
           tz_offset, chart_type, sunrise_jd, computed, grahas, divisional_charts,
           dasha, panchanga, bav, sav, response, lagna, bhavas, pc, trace >>

\* What only a full-chart request in progress changes.
service == << lagna, bhavas, pc, trace >>

inputs == << planet_positions, ascendant_longitude, cusps, birth_dt, levels, jd,
             tz_offset, chart_type >>

\* Nothing is computed yet.
NoResults ==
    /\ computed = {}
    /\ sunrise_jd = 0
    /\ grahas = <<>>
    /\ divisional_charts = <<>>
    /\ dasha = <<>>
    /\ panchanga = <<>>
    /\ bav = <<>>
    /\ sav = <<>>
    /\ response = <<>>
    /\ lagna = <<>>
    /\ bhavas = <<>>
    /\ trace = <<>>

\* A request for the chart base and the divisional chart type.
RequestChart(base, cusp_list, birth, depth, birth_jd, tz, type) ==
    /\ planet_positions = compute_all_planets(base.planets)
    /\ ascendant_longitude = base.lagna
    /\ cusps = cusp_list
    /\ birth_dt = birth
    /\ levels = depth
    /\ jd = birth_jd
    /\ tz_offset = tz
    /\ chart_type = type
    /\ pc = "none"
    /\ NoResults

\* The chart type a request has when it names none.
DefaultChartType == "D9"

\* A request for the chart base.
Request(base, cusp_list, birth, depth, birth_jd, tz) ==
    RequestChart(base, cusp_list, birth, depth, birth_jd, tz, DefaultChartType)

DefaultBirth == <<0, 0, 720, 941, 860, 62>>
DefaultTz == 5 * HourUnits + HourUnits \div 2

\* One body at a time on every sample longitude, equal house cusps; the
\* reference chart against every list of cusps over CuspValues; the Moon on
\* and next to every cusp of unequal and of equal houses.
InitChart ==
    \/ \E base \in BaseCharts, body \in GRAHA_BODIES \cup {"Lagna"}, L \in LonSamples :
          LET chart == MoveBody(base, body, L)
          IN  Request(chart, EqualHouseCusps(chart.lagna), DefaultBirth, MaxLevels,
                      JdStart, DefaultTz)
    \/ \E cusp_list \in [1..12 -> CuspValues] :
          Request(SaiSankalp, cusp_list, DefaultBirth, MaxLevels, JdStart, DefaultTz)
    \/ \E first_cusp \in FirstCuspSamples, widths \in HouseWidthSamples,
           k \in 1..12, d \in {-1, 0, 1} :
          LET cusp_list == CuspsOfWidths(first_cusp, widths)
              chart == MoveBody(SaiSankalp, "Moon", (cusp_list[k] + d) % FullCircle)
          IN  Request(chart, cusp_list, DefaultBirth, MaxLevels, JdStart, DefaultTz)
    \/ \E first_cusp \in FirstCuspSamples, k \in 1..12, d \in {-1, 0, 1} :
          LET cusp_list == EqualHouseCusps(first_cusp)
              chart == MoveBody(MoveBody(SaiSankalp, "Lagna", first_cusp), "Moon",
                                (cusp_list[k] + d) % FullCircle)
          IN  Request(chart, cusp_list, DefaultBirth, MaxLevels, JdStart, DefaultTz)
    \/ \E body \in {"Lagna", "Moon"}, L \in DivisionSamples :
          LET chart == MoveBody(SaiSankalp, body, L)
          IN  Request(chart, EqualHouseCusps(chart.lagna), DefaultBirth, MaxLevels,
                      JdStart, DefaultTz)
    \/ \E base \in BaseCharts, body \in GRAHA_BODIES, latitude \in LatitudeSamples,
           distance \in DistanceSamples, speed_long \in SpeedSamples :
          LET chart == WithMotion(base, body, latitude, distance, speed_long)
          IN  Request(chart, EqualHouseCusps(chart.lagna), DefaultBirth, MaxLevels,
                      JdStart, DefaultTz)

\* The Moon on every sample longitude, every depth, every sample birth instant.
InitDasha ==
    \E L \in MoonSamples, depth \in 1..MaxLevels, birth \in BirthSamples :
        LET chart == MoveBody(SaiSankalp, "Moon", L)
        IN  Request(chart, EqualHouseCusps(chart.lagna), birth, depth, JdStart, DefaultTz)

\* Every chart type sample for the reference charts with one reference point
\* at a time in every rashi.
InitDivisional ==
    \E base \in BaseCharts, body \in GRAHA_BODIES \cup {"Lagna"}, L \in RashiSamples,
       type \in ChartTypeSamples :
        LET chart == MoveBody(base, body, L)
        IN  RequestChart(chart, EqualHouseCusps(chart.lagna), DefaultBirth, MaxLevels,
                         JdStart, DefaultTz, type)

\* The Sun on every sample longitude and the Moon every sample elongation
\* ahead of it; where the two are on the same whole unit, each is that
\* double or the next one above it.
InitLunarDay ==
    \E sun \in SunSamples, elongation \in ElongationSamples,
       sun_ulps \in {0, 1}, moon_ulps \in {0, 1} :
        LET moon  == (sun + elongation) % FullCircle
            moved == MoveBody(MoveBody(SaiSankalp, "Sun", sun), "Moon", moon)
            chart == WithUlps(WithUlps(moved, "Sun", sun_ulps), "Moon", moon_ulps)
        IN  /\ (elongation # 0) => (sun_ulps = 0 /\ moon_ulps = 0)
            /\ Request(chart, EqualHouseCusps(chart.lagna), DefaultBirth, MaxLevels,
                       JdStart, DefaultTz)

\* Every sample birth instant in every sample timezone.
InitPanchanga ==
    \E base \in BaseCharts, birth_jd \in JdSamples, tz \in TzSamples :
        Request(base, EqualHouseCusps(base.lagna), DefaultBirth, MaxLevels, birth_jd, tz)

\* One reference point at a time in every rashi; and every combination of
\* two charts' positions.
InitAshtakavarga ==
    \/ \E base \in BaseCharts, body \in GRAHA_BODIES \cup {"Lagna"}, L \in RashiSamples :
          LET chart == MoveBody(base, body, L)
          IN  Request(chart, EqualHouseCusps(chart.lagna), DefaultBirth, MaxLevels,
                      JdStart, DefaultTz)
    \/ \E pick \in [GRAHA_BODIES \cup {"Lagna"} -> BaseCharts] :
          LET chart == [ lagna   |-> pick["Lagna"].lagna,
                         planets |-> [ b \in GRAHA_BODIES |-> pick[b].planets[b] ] ]
          IN  Request(chart, EqualHouseCusps(chart.lagna), DefaultBirth, MaxLevels,
                      JdStart, DefaultTz)

\* levels=3 in the call to compute_mahadasha.
FullChartLevels == 3

\* Birth instants six hours apart through one day.
FullChartJdSamples == { JdStart + 6 * HourUnits * k : k \in 0..3 }

\* The request is parsed; nothing has been asked of the ephemeris yet.
InitFullChart ==
    \E birth_jd \in FullChartJdSamples, tz \in TzSamples, birth \in BirthSamples :
        /\ planet_positions = <<>>
        /\ ascendant_longitude = <<>>
        /\ cusps = <<>>
        /\ birth_dt = birth
        /\ levels = FullChartLevels
        /\ jd = birth_jd
        /\ tz_offset = tz
        /\ chart_type = DefaultChartType
        /\ pc = "get_ayanamsa"
        /\ NoResults

Init ==
    \/ InitChart
    \/ InitDasha
    \/ InitPanchanga
    \/ InitAshtakavarga
    \/ InitDivisional
    \/ InitLunarDay
    \/ InitFullChart

(***************************************************************************)
(* Operations                                                              *)
(***************************************************************************)
ComputeGrahaPositions ==
    /\ "grahas" \notin computed
    /\ grahas' = compute_graha_positions(planet_positions, cusps)
    /\ computed' = computed \cup {"grahas"}
    /\ UNCHANGED << inputs, sunrise_jd, divisional_charts, dasha, panchanga, bav, sav, response, service >>

ComputeAllDivisionalCharts ==
    /\ "divisional_charts" \notin computed
    /\ divisional_charts' =
           compute_all_divisional_charts(planet_positions, ascendant_longitude)
    /\ computed' = computed \cup {"divisional_charts"}
    /\ UNCHANGED << inputs, sunrise_jd, grahas, dasha, panchanga, bav, sav, response, service >>

ComputeMahadasha ==
    /\ "dasha" \notin computed
    /\ dasha' = compute_mahadasha(planet_positions["Moon"].longitude, birth_dt, levels)
    /\ computed' = computed \cup {"dasha"}
    /\ UNCHANGED << inputs, sunrise_jd, grahas, divisional_charts, panchanga, bav, sav, response, service >>

\* compute_sunrise answers with the sunrise that follows the local midnight
\* it is asked from.
ComputePanchanga ==
    /\ "panchanga" \notin computed
    /\ \E rise \in SunriseSamples :
          /\ sunrise_jd' = local_midnight_ut(jd, tz_offset) + rise
          /\ panchanga' = compute_panchanga(Double(planet_positions["Sun"]),
                                            Double(planet_positions["Moon"]),
                                            jd, tz_offset, sunrise_jd')
    /\ computed' = computed \cup {"panchanga"}
    /\ UNCHANGED << inputs, grahas, divisional_charts, dasha, bav, sav, response, service >>

ComputeBhinnashtakavarga ==
    /\ "bav" \notin computed
    /\ bav' = compute_bhinnashtakavarga(planet_positions, ascendant_longitude)
    /\ computed' = computed \cup {"bav"}
    /\ UNCHANGED << inputs, sunrise_jd, grahas, divisional_charts, dasha, panchanga, sav, response, service >>

ComputeSarvashtakavarga ==
    /\ "bav" \in computed
    /\ "sav" \notin computed
    /\ sav' = compute_sarvashtakavarga(bav)
    /\ computed' = computed \cup {"sav"}
    /\ UNCHANGED << inputs, sunrise_jd, grahas, divisional_charts, dasha, panchanga, bav, response, service >>

\* POST /api/v1/chart/divisional, the whole handler.
GetDivisionalChart ==
    /\ "response" \notin computed
    /\ response' = get_divisional_chart(planet_positions, ascendant_longitude,
                                        chart_type)
    /\ computed' = computed \cup {"response"}
    /\ UNCHANGED << inputs, sunrise_jd, grahas, divisional_charts, dasha, panchanga,
                    bav, sav, service >>

(***************************************************************************)
(* services/chart_service.py: compute_full_chart, call by call             *)
(***************************************************************************)
\* A call to the ephemeris provider, and who makes it.
EphemerisCall(name, by) == [ kind |-> "ephemeris", name |-> name, by |-> by ]

\* A call of compute_full_chart to a derivation component.
ComponentCall(name) == [ kind |-> "component", name |-> name, by |-> "compute_full_chart" ]

FullChartAyanamsa ==
    /\ pc = "get_ayanamsa"
    /\ trace' = Append(trace, EphemerisCall("get_ayanamsa", "compute_full_chart"))
    /\ pc' = "compute_all_planets"
    /\ UNCHANGED << inputs, sunrise_jd, computed, grahas, divisional_charts, dasha,
                    panchanga, bav, sav, response, lagna, bhavas >>

\* The ephemeris answers with the positions of one of the reference charts.
FullChartPlanets ==
    /\ pc = "compute_all_planets"
    /\ \E base \in BaseCharts : planet_positions' = compute_all_planets(base.planets)
    /\ trace' = Append(trace, EphemerisCall("compute_all_planets", "compute_full_chart"))
    /\ pc' = "compute_houses"
    /\ UNCHANGED << ascendant_longitude, cusps, birth_dt, levels, jd, tz_offset,
                    chart_type, sunrise_jd, computed, grahas, divisional_charts, dasha,
                    panchanga, bav, sav, response, lagna, bhavas >>

\* DEFAULT_HOUSE_SYSTEM is the equal house system.
FullChartHouses ==
    /\ pc = "compute_houses"
    /\ \E base \in BaseCharts :
          /\ ascendant_longitude' = base.lagna
          /\ cusps' = EqualHouseCusps(base.lagna)
    /\ trace' = Append(trace, EphemerisCall("compute_houses", "compute_full_chart"))
    /\ pc' = "compute_lagna"
    /\ UNCHANGED << planet_positions, birth_dt, levels, jd, tz_offset, chart_type,
                    sunrise_jd, computed, grahas, divisional_charts, dasha, panchanga,
                    bav, sav, response, lagna, bhavas >>

FullChartLagna ==
    /\ pc = "compute_lagna"
    /\ lagna' = compute_lagna(ascendant_longitude)
    /\ trace' = Append(trace, ComponentCall("compute_lagna"))
    /\ pc' = "compute_bhavas"
    /\ UNCHANGED << inputs, sunrise_jd, computed, grahas, divisional_charts, dasha,
                    panchanga, bav, sav, response, bhavas >>

FullChartBhavas ==
    /\ pc = "compute_bhavas"
    /\ bhavas' = compute_bhavas(cusps, ascendant_longitude)
    /\ trace' = Append(trace, ComponentCall("compute_bhavas"))
    /\ pc' = "compute_graha_positions"
    /\ UNCHANGED << inputs, sunrise_jd, computed, grahas, divisional_charts, dasha,
                    panchanga, bav, sav, response, lagna >>

FullChartGrahas ==
    /\ pc = "compute_graha_positions"
    /\ grahas' = compute_graha_positions(planet_positions, cusps)
    /\ computed' = computed \cup {"grahas"}
    /\ trace' = Append(trace, ComponentCall("compute_graha_positions"))
    /\ pc' = "compute_all_divisional_charts"
    /\ UNCHANGED << inputs, sunrise_jd, divisional_charts, dasha, panchanga, bav, sav,
                    response, lagna, bhavas >>

FullChartDivisional ==
    /\ pc = "compute_all_divisional_charts"
    /\ divisional_charts' =
           compute_all_divisional_charts(planet_positions, ascendant_longitude)
    /\ computed' = computed \cup {"divisional_charts"}
    /\ trace' = Append(trace, ComponentCall("compute_all_divisional_charts"))
    /\ pc' = "compute_mahadasha"
    /\ UNCHANGED << inputs, sunrise_jd, grahas, dasha, panchanga, bav, sav, response,
                    lagna, bhavas >>

\* Faulty variant of FullChartDasha: the dasha component asks the ephemeris for the
\* positions itself, as compute_dasha_only does for its own request.
FullChartDashaRefetching ==
    /\ pc = "compute_mahadasha"
    /\ dasha' = compute_mahadasha(planet_positions["Moon"].longitude, birth_dt, levels)
    /\ computed' = computed \cup {"dasha"}
    /\ trace' = trace \o << ComponentCall("compute_mahadasha"),
                            EphemerisCall("compute_all_planets", "compute_mahadasha") >>
    /\ pc' = "compute_panchanga"
    /\ UNCHANGED << inputs, sunrise_jd, grahas, divisional_charts, panchanga, bav, sav,
                    response, lagna, bhavas >>

FullChartDasha ==
    /\ pc = "compute_mahadasha"
    /\ dasha' = compute_mahadasha(planet_positions["Moon"].longitude, birth_dt, levels)
    /\ computed' = computed \cup {"dasha"}
    /\ trace' = Append(trace, ComponentCall("compute_mahadasha"))
    /\ pc' = "compute_panchanga"
    /\ UNCHANGED << inputs, sunrise_jd, grahas, divisional_charts, panchanga, bav, sav,
                    response, lagna, bhavas >>

\* compute_panchanga is given the place of birth and calls compute_sunrise
\* itself; an exception it raises ends the request.
FullChartPanchanga ==
    /\ pc = "compute_panchanga"
    /\ \E rise \in SunriseSamples :
          /\ sunrise_jd' = local_midnight_ut(jd, tz_offset) + rise
          /\ panchanga' = compute_panchanga(Double(planet_positions["Sun"]),
                                            Double(planet_positions["Moon"]),
                                            jd, tz_offset, sunrise_jd')
    /\ computed' = computed \cup {"panchanga"}
    /\ trace' = trace \o << ComponentCall("compute_panchanga"),
                            EphemerisCall("compute_sunrise", "compute_panchanga") >>
    /\ pc' = IF "error" \in DOMAIN panchanga' THEN "raised" ELSE "compute_bhinnashtakavarga"
    /\ UNCHANGED << inputs, grahas, divisional_charts, dasha, bav, sav, response, lagna,
                    bhavas >>

FullChartBhinnashtakavarga ==
    /\ pc = "compute_bhinnashtakavarga"
    /\ bav' = compute_bhinnashtakavarga(planet_positions, ascendant_longitude)
    /\ computed' = computed \cup {"bav"}
    /\ trace' = Append(trace, ComponentCall("compute_bhinnashtakavarga"))
    /\ pc' = "compute_sarvashtakavarga"
    /\ UNCHANGED << inputs, sunrise_jd, grahas, divisional_charts, dasha, panchanga, sav,
                    response, lagna, bhavas >>

\* The last call; the chart record is put together and returned.
FullChartSarvashtakavarga ==
    /\ pc = "compute_sarvashtakavarga"
    /\ sav' = compute_sarvashtakavarga(bav)
    /\ computed' = computed \cup {"sav"}
    /\ trace' = Append(trace, ComponentCall("compute_sarvashtakavarga"))
    /\ pc' = "returned"
    /\ UNCHANGED << inputs, sunrise_jd, grahas, divisional_charts, dasha, panchanga, bav,
                    response, lagna, bhavas >>

NextFullChart ==
    \/ FullChartAyanamsa
    \/ FullChartPlanets
    \/ FullChartHouses
    \/ FullChartLagna
    \/ FullChartBhavas
    \/ FullChartGrahas
    \/ FullChartDivisional
    \/ FullChartDasha
    \/ FullChartPanchanga
    \/ FullChartBhinnashtakavarga
    \/ FullChartSarvashtakavarga

NextChart == ComputeGrahaPositions \/ ComputeAllDivisionalCharts

NextDasha == ComputeMahadasha

NextPanchanga == ComputePanchanga

NextAshtakavarga == ComputeBhinnashtakavarga \/ ComputeSarvashtakavarga

NextDivisional == GetDivisionalChart

Next ==
    \/ NextChart
    \/ NextDasha
    \/ NextPanchanga
    \/ NextAshtakavarga
    \/ NextDivisional
    \/ NextFullChart

SpecChart == InitChart /\ [][NextChart]_vars

SpecDasha == InitDasha /\ [][NextDasha]_vars

SpecPanchanga == InitPanchanga /\ [][NextPanchanga]_vars

SpecAshtakavarga == InitAshtakavarga /\ [][NextAshtakavarga]_vars

SpecDivisional == InitDivisional /\ [][NextDivisional]_vars

SpecLunarDay == InitLunarDay /\ [][NextPanchanga]_vars

SpecFullChart == InitFullChart /\ [][NextFullChart]_vars

Spec == Init /\ [][Next]_vars

(***************************************************************************)
(* Properties                                                              *)
(***************************************************************************)
\* The children of a dasha period (none at the deepest level computed).
Children(period) ==
    IF "antardasha" \in DOMAIN period THEN period.antardasha
    ELSE IF "pratyantardasha" \in DOMAIN period THEN period.pratyantardasha
    ELSE <<>>

\* Sum of the reported duration_years of a list of periods, in 1/10000 year.
RECURSIVE SumDurations(_)
SumDurations(periods) ==
    IF periods = <<>> THEN 0
    ELSE Head(periods).duration_years + SumDurations(Tail(periods))

\* The chart of the given type among the computed divisional charts.
ChartOf(type) ==
    divisional_charts[CHOOSE k \in 1..Len(divisional_charts) :
                          divisional_charts[k].chart_type = type]

\* The sign whose 30 degrees contain the longitude.
SignContaining(longitude) ==
    CHOOSE r \in 1..12 :
        /\ (r - 1) * 30 * DegreeUnits <= longitude
        /\ longitude < r * 30 * DegreeUnits

\* The nakshatra whose 360/27 degrees contain the longitude.
NakshatraContaining(longitude) ==
    CHOOSE n \in 1..27 :
        /\ (n - 1) * FullCircle <= 27 * longitude
        /\ 27 * longitude < n * FullCircle

\* C1: the 12 values of the sarvashtakavarga sum to exactly 337, whatever the
\* longitudes of the 7 planets and the ascendant.
C1_SarvashtakavargaSums337 ==
    "sav" \in computed => Len(sav) = 12 /\ SeqSum(sav) = 337

\* A sarvashtakavarga computed for a chart whose Sun is in Mesha and whose
\* ascendant is in Vrischika.
C1_Witness ==
    /\ "sav" \in computed
    /\ longitude_to_rashi(planet_positions["Sun"].longitude) = 1
    /\ longitude_to_rashi(ascendant_longitude) = 8
    /\ SeqSum(sav) = 337

BavTotals ==
    [ Sun |-> 48, Moon |-> 49, Mars |-> 39, Mercury |-> 54, Jupiter |-> 56,
      Venus |-> 52, Saturn |-> 39 ]

\* C2: the 12-slot vector of each planet sums to its fixed total (Sun 48,
\* Moon 49, Mars 39, Mercury 54, Jupiter 56, Venus 52, Saturn 39), whatever
\* the positions.
C2_BavPlanetTotals ==
    "bav" \in computed =>
        /\ DOMAIN bav = DOMAIN BavTotals
        /\ \A planet \in DOMAIN BavTotals :
              Len(bav[planet]) = 12 /\ SeqSum(bav[planet]) = BavTotals[planet]

\* The bhinnashtakavarga of the Chennai chart with the Moon moved to the
\* middle of Kumbha: Saturn's 39 bindus are spread unevenly over the rashis.
C2_Witness ==
    /\ "bav" \in computed
    /\ planet_positions["Moon"].longitude = 315 * DegreeUnits
    /\ planet_positions["Sun"] = Chennai1975.planets["Sun"]
    /\ ascendant_longitude = Chennai1975.lagna
    /\ bav["Saturn"] = <<5, 4, 2, 6, 2, 3, 2, 2, 3, 3, 4, 3>>

\* C3: for every longitude and every list of 12 cusps, rashi is in 1..12,
\* nakshatra in 1..27, pada in 1..4 and the house in 1..12.
C3_LocatorRanges ==
    "grahas" \in computed =>
        \A i \in 1..Len(grahas) :
            /\ grahas[i].rashi \in 1..12
            /\ grahas[i].nakshatra \in 1..27
            /\ grahas[i].pada \in 1..4
            /\ grahas[i].house \in 1..12

\* A graha on the last unit of the zodiac, placed in the last rashi,
\* nakshatra and pada, with its house found in the interval that wraps.
C3_Witness ==
    /\ "grahas" \in computed
    /\ \E i \in 1..Len(grahas) :
          /\ grahas[i].longitude = FullCircle - 1
          /\ grahas[i].rashi = 12
          /\ grahas[i].nakshatra = 27
          /\ grahas[i].pada = 4
          /\ cusps[grahas[i].house] > cusps[(grahas[i].house % 12) + 1]

\* C4: the D1 chart gives the ascendant and each of the 9 grahas the rashi
\* of its longitude, the one compute_graha_positions reports.
C4_D1IsRashi ==
    {"divisional_charts", "grahas"} \subseteq computed =>
        LET d1 == ChartOf("D1")
        IN  /\ d1.lagna.rashi = SignContaining(ascendant_longitude)
            /\ Len(d1.grahas) = 9
            /\ \A i \in 1..9 :
                  /\ d1.grahas[i].graha = grahas[i].graha
                  /\ d1.grahas[i].rashi = grahas[i].rashi
                  /\ d1.grahas[i].rashi =
                         SignContaining(planet_positions[GRAHA_NAMES[i]].longitude)

\* Both results computed for a chart with the Sun exactly on the boundary of
\* Vrishabha and the ascendant in Vrischika.
C4_Witness ==
    /\ {"divisional_charts", "grahas"} \subseteq computed
    /\ planet_positions["Sun"].longitude = 30 * DegreeUnits
    /\ ChartOf("D1").grahas[1].rashi = 2
    /\ ChartOf("D1").lagna.rashi = 8

\* floor(L / (360/108)) mod 12 + 1, the absolute-pada form of the navamsa.
AbsolutePadaSign(longitude) == (((108 * longitude) \div FullCircle) % 12) + 1

\* C5: for every longitude the D9 sign of the element-start rule equals
\* (floor(L / (360/108)) mod 12) + 1.
C5_D9AbsolutePada ==
    "divisional_charts" \in computed =>
        LET d9 == ChartOf("D9")
        IN  /\ d9.lagna.rashi = AbsolutePadaSign(ascendant_longitude)
            /\ \A i \in 1..9 :
                  d9.grahas[i].rashi =
                      AbsolutePadaSign(planet_positions[GRAHA_NAMES[i]].longitude)

\* The D9 chart of a chart whose Moon stands on the first unit of the last
\* navamsa of Vrischika (a water sign, part 8: Cancer + 8 = Meena).
C5_Witness ==
    /\ "divisional_charts" \in computed
    /\ planet_positions["Moon"].longitude = (71 * FullCircle) \div 108
    /\ longitude_to_rashi(planet_positions["Moon"].longitude) = 8
    /\ ChartOf("D9").grahas[2].rashi = 12

\* The cycle of lords as the specification lists it.
LordCycle ==
    << "Ketu", "Venus", "Sun", "Moon", "Mars", "Rahu", "Jupiter", "Saturn", "Mercury" >>

\* C6: compute_mahadasha returns exactly 9 top-level periods whose lords are
\* the lord of the Moon's nakshatra followed by the next 8 of the cycle.
C6_MahadashaLords ==
    "dasha" \in computed =>
        LET nak   == NakshatraContaining(planet_positions["Moon"].longitude)
            first == ((nak - 1) % 9) + 1
        IN  /\ Len(dasha) = 9
            /\ LordCycle[first] = NAKSHATRA_LORDS[nak]
            /\ \A k \in 0..8 : dasha[k + 1].lord = LordCycle[((first - 1 + k) % 9) + 1]

\* The dasha of a Moon in Revati: Mercury, Ketu, Venus, Sun, Moon, Mars, Rahu,
\* Jupiter, Saturn.
C6_Witness ==
    /\ "dasha" \in computed
    /\ NakshatraContaining(planet_positions["Moon"].longitude) = 27
    /\ [k \in 1..9 |-> dasha[k].lord] =
           << "Mercury", "Ketu", "Venus", "Sun", "Moon", "Mars", "Rahu", "Jupiter",
              "Saturn" >>

RECURSIVE ChildrenSumToParent(_)
ChildrenSumToParent(periods) ==
    \A i \in 1..Len(periods) :
        LET children == Children(periods[i])
            diff     == SumDurations(children) - periods[i].duration_years
        IN  children /= <<>> =>
                /\ diff < 500
                /\ -diff < 500
                /\ ChildrenSumToParent(children)

\* C8: for every period that has children, the reported durations of the 9
\* children sum to the parent's reported duration within 0.05 year.
C8_ChildrenSumToParent ==
    "dasha" \in computed => ChildrenSumToParent(dasha)

\* A three-level dasha in which the reported durations of the 9
\* pratyantardashas of some antardasha do not add up exactly to the reported
\* duration of the antardasha: the tolerance is in use.
C8_Witness ==
    /\ "dasha" \in computed
    /\ levels = 3
    /\ \E i \in 1..9 : \E j \in 1..9 :
          LET antar == dasha[i].antardasha[j]
          IN  /\ Len(antar.pratyantardasha) = 9
              /\ SumDurations(antar.pratyantardasha) /= antar.duration_years

\* Every period of the list ends where the next starts, in the list and below.
RECURSIVE Contiguous(_)
Contiguous(periods) ==
    /\ \A i \in 1..(Len(periods) - 1) : periods[i].end = periods[i + 1].start
    /\ \A i \in 1..Len(periods) :
          Children(periods[i]) /= <<>> => Contiguous(Children(periods[i]))

\* C9: sibling periods are time-contiguous at every nesting level, and the
\* first top-level period starts at the birth instant.
C9_PeriodsContiguous ==
    "dasha" \in computed =>
        /\ dasha[1].start = birth_dt
        /\ Contiguous(dasha)

\* A three-level dasha whose first period is a partial one that does not end
\* a whole number of reported years after the birth, followed by its
\* successor.
C9_Witness ==
    /\ "dasha" \in computed
    /\ levels = 3
    /\ dasha[1].duration_years % 10000 /= 0
    /\ dasha[1].end = dasha[2].start
    /\ dasha[1].antardasha[9].end /= dasha[1].antardasha[1].start
    /\ dasha[1].antardasha[1].pratyantardasha[1].end =
           dasha[1].antardasha[1].pratyantardasha[2].start

\* The number of the civil (local midnight to midnight) day that contains the
\* local Julian Day x, and the weekday of a civil day: floor(x + 1.5) mod 7 for
\* any x of that day, 0 = Sunday ... 6 = Saturday.
CivilDay(x) == (2 * x + DayUnits) \div (2 * DayUnits)
WeekdayOfCivilDay(n) ==
    << "Sunday", "Monday", "Tuesday", "Wednesday", "Thursday", "Friday",
       "Saturday" >>[((n + 1) % 7) + 1]

\* C10: the sunrise asked for is the one of the civil date of the birth; a
\* birth before it gets the weekday of the previous civil day and a birth at
\* or after it the weekday of its own civil day.
C10_VaraSunriseRule ==
    "panchanga" \in computed =>
        LET today == CivilDay(jd + tz_offset)
        IN  /\ CivilDay(sunrise_jd + tz_offset) = today
            /\ jd < sunrise_jd => panchanga.vara.english = WeekdayOfCivilDay(today - 1)
            /\ jd >= sunrise_jd => panchanga.vara.english = WeekdayOfCivilDay(today)

\* A birth at 04:45 local time on Saturday 1992-12-26 (UTC+5:30), before the
\* sunrise of 06:45 local time: the vara is Friday.
C10_Witness ==
    /\ "panchanga" \in computed
    /\ tz_offset = 5 * HourUnits + HourUnits \div 2
    /\ jd + tz_offset = JdStart + 16 * HourUnits + (3 * HourUnits) \div 4
    /\ sunrise_jd + tz_offset = JdStart + 18 * HourUnits + (3 * HourUnits) \div 4
    /\ jd < sunrise_jd
    /\ panchanga.vara.english = "Friday"


\* C11: Ketu is derived from Rahu: its longitude is (Rahu + 180) mod 360, so
\* it lies in [0, 360) exactly 180 degrees from Rahu; its latitude is the
\* negation of Rahu's; its distance and its speed in longitude are Rahu's.
C11_KetuOppositeRahu ==
    LET rahu == planet_positions["Rahu"]
        ketu == planet_positions["Ketu"]
        diff == rahu.longitude - ketu.longitude
    IN  /\ ketu.longitude \in 0..(FullCircle - 1)
        /\ (IF diff < 0 THEN -diff ELSE diff) = 180 * DegreeUnits
        /\ ketu.longitude = IF rahu.longitude < 180 * DegreeUnits
                            THEN rahu.longitude + 180 * DegreeUnits
                            ELSE rahu.longitude - 180 * DegreeUnits
        /\ ketu.latitude = -rahu.latitude
        /\ ketu.distance = rahu.distance
        /\ ketu.speed_long = rahu.speed_long

\* Rahu north of the ecliptic in the second half of the zodiac: Ketu wraps
\* around 360 degrees and lies south.
C11_Witness ==
    /\ "grahas" \in computed
    /\ grahas[9].graha = "Ketu"
    /\ grahas[9].longitude = planet_positions["Rahu"].longitude - 180 * DegreeUnits
    /\ planet_positions["Rahu"].longitude >= 180 * DegreeUnits
    /\ planet_positions["Rahu"].latitude > 0
    /\ planet_positions["Rahu"].speed_long < 0
    /\ planet_positions["Ketu"].longitude < 180 * DegreeUnits
    /\ planet_positions["Ketu"].latitude < 0

\* C12: a graha is flagged retrograde exactly when its speed in longitude is
\* negative or it is Rahu or Ketu; Rahu and Ketu are flagged whatever their
\* speed.
C12_RetrogradeFlag ==
    "grahas" \in computed =>
        \A i \in 1..Len(grahas) :
            LET name  == grahas[i].graha
                speed == planet_positions[name].speed_long
            IN  /\ grahas[i].retrograde \in BOOLEAN
                /\ (name \in {"Rahu", "Ketu"}) => grahas[i].retrograde
                /\ (name \notin {"Rahu", "Ketu"}) => (grahas[i].retrograde <=> speed < 0)

\* The nodes moving forward are flagged all the same, no other body is.
C12_Witness ==
    /\ "grahas" \in computed
    /\ planet_positions["Rahu"].speed_long > 0
    /\ \A i \in 1..Len(grahas) :
          grahas[i].retrograde <=> grahas[i].graha \in {"Rahu", "Ketu"}


\* C13: a chart type outside D1, D2, D3, D7, D9, D10, D12, D30, D60 makes
\* compute_divisional_chart raise an invalid-input error with no chart, not
\* even a partial one, and the divisional endpoint answers with a client
\* error that carries it.
C13_UnsupportedChartTypeRejected ==
    ("response" \in computed /\
     chart_type \notin {"D1", "D2", "D3", "D7", "D9", "D10", "D12", "D30", "D60"}) =>
        /\ DOMAIN response = {"status_code", "detail"}
        /\ response.status_code \in 400..499
        /\ response.detail = << "Unsupported divisional chart", chart_type >>
        /\ LET raised == compute_divisional_chart(planet_positions,
                                                  ascendant_longitude, chart_type)
           IN  /\ DOMAIN raised = {"error", "detail"}
               /\ raised.error = "ValueError"

\* The endpoint has answered a request for the chart D4.
C13_Witness ==
    /\ "response" \in computed
    /\ chart_type = "D4"
    /\ response.status_code = 400


\* C14: compute_all_divisional_charts returns exactly 9 charts, one for each
\* of D1, D2, D3, D7, D9, D10, D12, D30, D60 and none twice; every chart has
\* one lagna sign and the signs of exactly the 9 grahas, each sign in 1..12.
C14_NineChartsInRange ==
    "divisional_charts" \in computed =>
        /\ Len(divisional_charts) = 9
        /\ { divisional_charts[k].chart_type : k \in 1..Len(divisional_charts) } =
               {"D1", "D2", "D3", "D7", "D9", "D10", "D12", "D30", "D60"}
        /\ \A j, k \in 1..Len(divisional_charts) :
               divisional_charts[j].chart_type = divisional_charts[k].chart_type => j = k
        /\ \A k \in 1..Len(divisional_charts) :
               LET chart == divisional_charts[k]
               IN  /\ chart.lagna.rashi \in 1..12
                   /\ Len(chart.grahas) = 9
                   /\ { chart.grahas[i].graha : i \in 1..Len(chart.grahas) } =
                          { "Sun", "Moon", "Mars", "Mercury", "Jupiter", "Venus",
                            "Saturn", "Rahu", "Ketu" }
                   /\ \A i \in 1..Len(chart.grahas) : chart.grahas[i].rashi \in 1..12

\* The Moon on the last unit of Vrishabha, an even sign: its D60 sign is
\* counted 59 signs backward from the second sign and is the third.
C14_Witness ==
    /\ "divisional_charts" \in computed
    /\ planet_positions["Moon"].longitude = 60 * DegreeUnits - 1
    /\ ChartOf("D60").grahas[2].graha = "Moon"
    /\ ChartOf("D60").grahas[2].rashi = 3


\* The keys of a period that has no children.
LeafKeys == {"lord", "start", "end", "duration_years"}

\* C15: with levels = 1 no period has children; with levels = 2 every
\* Mahadasha has exactly 9 antardasha children, which have none; with
\* levels = 3 every antardasha has exactly 9 pratyantardasha children
\* besides, which have none.
C15_DepthSelection ==
    "dasha" \in computed =>
        \A m \in 1..Len(dasha) :
            /\ levels = 1 => DOMAIN dasha[m] = LeafKeys
            /\ levels \in {2, 3} =>
                  /\ DOMAIN dasha[m] = LeafKeys \cup {"antardasha"}
                  /\ Len(dasha[m].antardasha) = 9
                  /\ \A a \in 1..Len(dasha[m].antardasha) :
                        LET antar == dasha[m].antardasha[a]
                        IN  /\ levels = 2 => DOMAIN antar = LeafKeys
                            /\ levels = 3 =>
                                  /\ DOMAIN antar = LeafKeys \cup {"pratyantardasha"}
                                  /\ Len(antar.pratyantardasha) = 9
                                  /\ \A q \in 1..Len(antar.pratyantardasha) :
                                        DOMAIN antar.pratyantardasha[q] = LeafKeys

\* A tree of depth 3 has been computed: 9 x 9 x 9 periods, leaves at the
\* third level.
C15_Witness ==
    /\ "dasha" \in computed
    /\ levels = 3
    /\ Len(dasha) = 9
    /\ Len(dasha[9].antardasha) = 9
    /\ Len(dasha[9].antardasha[9].pratyantardasha) = 9
    /\ DOMAIN dasha[9].antardasha[9].pratyantardasha[9] = LeafKeys


\* 12 cusps in [0, 360) strictly ascending around the circle: exactly one
\* cusp is greater than its successor, every other one is smaller.
WellFormedCusps(cusp_list) ==
    /\ \A i \in 1..12 : cusp_list[i] \in 0..(FullCircle - 1)
    /\ Cardinality({ i \in 1..12 : cusp_list[i] > cusp_list[(i % 12) + 1] }) = 1
    /\ \A i \in 1..12 : cusp_list[i] # cusp_list[(i % 12) + 1]

\* The interval [cusp i, cusp i+1) contains the longitude; the interval that
\* wraps contains what is at or after its start or before its end.
InHouseInterval(longitude, cusp_list, i) ==
    LET from == cusp_list[i]
        to   == cusp_list[(i % 12) + 1]
    IN  IF from < to THEN from <= longitude /\ longitude < to
        ELSE longitude >= from \/ longitude < to

\* C16: with well-formed cusps every graha is in the one house whose interval
\* contains its longitude; an interval always matches, so the equal-house
\* fallback is not reached.
C16_HouseOfWellFormedCusps ==
    ("grahas" \in computed /\ WellFormedCusps(cusps)) =>
        \A g \in 1..Len(grahas) :
            LET matching == { i \in 1..12 :
                                InHouseInterval(grahas[g].longitude, cusps, i) }
            IN  /\ Cardinality(matching) = 1
                /\ grahas[g].house \in matching

\* Houses of unequal width, the Moon before the end of the interval that
\* wraps around 360 degrees, which is not the first house.
C16_Witness ==
    /\ "grahas" \in computed
    /\ WellFormedCusps(cusps)
    /\ (cusps[2] - cusps[1]) % FullCircle # 30 * DegreeUnits
    /\ LET house == grahas[2].house
       IN  /\ grahas[2].graha = "Moon"
           /\ house > 1
           /\ cusps[house] > cusps[(house % 12) + 1]
           /\ grahas[2].longitude < cusps[(house % 12) + 1]
           /\ house # Trunc((grahas[2].longitude - cusps[1]) % FullCircle,
                            30 * DegreeUnits) + 1


\* The full years of each lord as the specification lists them.
FullYears(lord) ==
    CASE lord = "Ketu"    -> 7
      [] lord = "Venus"   -> 20
      [] lord = "Sun"     -> 6
      [] lord = "Moon"    -> 10
      [] lord = "Mars"    -> 7
      [] lord = "Rahu"    -> 18
      [] lord = "Jupiter" -> 16
      [] lord = "Saturn"  -> 19
      [] lord = "Mercury" -> 17

\* The k-th lord (k = 1 is the lord itself) of the cycle read from lord on.
CycleFrom(lord, k) ==
    LET at == CHOOSE j \in 1..9 : LordCycle[j] = lord
    IN  LordCycle[((at + k - 2) % 9) + 1]

\* What is left of the Moon's nakshatra, in 1/FullCircle of a nakshatra:
\* 1 - (traversed fraction), times FullCircle.
RemainingOfNakshatra(longitude) ==
    NakshatraContaining(longitude) * FullCircle - 27 * longitude

\* The duration of the m-th top-level period in years: the balance of the
\* first lord's full years, the full years of every other lord.
TopLevelYears(m) ==
    LET full == FullYears(dasha[m].lord)
    IN  IF m = 1
        THEN [ num  |-> BigFromInt(full *
                            RemainingOfNakshatra(planet_positions["Moon"].longitude)),
               divs |-> <<360, DegreeUnits>> ]
        ELSE [ num |-> BigFromInt(full), divs |-> <<>> ]

\* The period lasts the given years: it is reported with them rounded to 4
\* decimals and ends that long after its start.
Lasts(period, years) ==
    /\ period.duration_years = Round4(years)
    /\ period.end = BigAdd(period.start, years_to_timedelta(years))

\* The children of a period of the given lord and years, if it has any, are
\* the 9 lords of the cycle from its own lord on, the k-th lasting
\* years * (full years of its lord) / 120; and so below.
RECURSIVE SubdividedFromOwnLord(_, _)
SubdividedFromOwnLord(period, years) ==
    Children(period) # <<>> =>
        /\ Len(Children(period)) = 9
        /\ \A k \in 1..9 :
              LET child == Children(period)[k]
                  lord  == CycleFrom(period.lord, k)
                  share == [ num  |-> BigMulSmall(years.num, FullYears(lord)),
                             divs |-> Append(years.divs, 120) ]
              IN  /\ child.lord = lord
                  /\ Lasts(child, share)
                  /\ SubdividedFromOwnLord(child, share)

\* C17: the sub-periods of a period with lord L and duration D, at either
\* nesting level, have the 9 lords of the fixed order starting from L itself,
\* and the k-th has duration D * (full years of its lord) / 120.
C17_SubPeriodsFromOwnLord ==
    "dasha" \in computed =>
        \A m \in 1..Len(dasha) : SubdividedFromOwnLord(dasha[m], TopLevelYears(m))

\* A tree of depth 3 for a Moon in Revati: the Mahadashas start from Mercury,
\* the antardashas of the second one (Ketu) from Ketu, the pratyantardashas
\* of its second antardasha (Venus) from Venus.
C17_Witness ==
    /\ "dasha" \in computed
    /\ levels = 3
    /\ dasha[1].lord = "Mercury"
    /\ dasha[2].lord = "Ketu"
    /\ dasha[2].antardasha[1].lord = "Ketu"
    /\ dasha[2].antardasha[2].lord = "Venus"
    /\ dasha[2].antardasha[2].duration_years = 11667
    /\ dasha[2].antardasha[2].pratyantardasha[1].lord = "Venus"
    /\ dasha[2].antardasha[2].pratyantardasha[1].duration_years = 1944

\* C18: the first top-level period lasts its lord's full years times
\* (1 - fraction of the Moon's nakshatra traversed), the fraction being in
\* [0, 1), so more than 0 and at most the full years; each of the other 8
\* lasts its lord's full years (Ketu 7, Venus 20, Sun 6, Moon 10, Mars 7,
\* Rahu 18, Jupiter 16, Saturn 19, Mercury 17).
C18_FirstBalanceOthersFull ==
    "dasha" \in computed =>
        LET remaining == RemainingOfNakshatra(planet_positions["Moon"].longitude)
            full      == FullYears(dasha[1].lord)
        IN  /\ FullCircle - remaining \in 0..(FullCircle - 1)
            /\ full * remaining > 0
            /\ full * remaining <= full * FullCircle
            /\ Lasts(dasha[1], TopLevelYears(1))
            /\ dasha[1].duration_years <= full * 10000
            /\ \A m \in 2..Len(dasha) :
                  /\ Lasts(dasha[m], TopLevelYears(m))
                  /\ dasha[m].duration_years = FullYears(dasha[m].lord) * 10000

\* The Moon in the middle of Ashwini: Ketu's balance is half of 7 years, and
\* Venus follows with 20.
C18_Witness ==
    /\ "dasha" \in computed
    /\ 2 * RemainingOfNakshatra(planet_positions["Moon"].longitude) = FullCircle
    /\ dasha[1].lord = "Ketu"
    /\ dasha[1].duration_years = 35000
    /\ dasha[1].end # dasha[1].start
    /\ dasha[2].lord = "Venus"
    /\ dasha[2].duration_years = 200000


\* The Moon's distance ahead of the Sun around the circle, as the unit whose
\* start it is at or after: a Moon units in the last place behind the Sun
\* is almost a full circle ahead of it.
ElongationUnits ==
    LET sun  == planet_positions["Sun"]
        moon == planet_positions["Moon"]
    IN  IF moon.longitude = sun.longitude /\ moon.longitude_ulps < sun.longitude_ulps
        THEN FullCircle - 1
        ELSE (moon.longitude - sun.longitude) % FullCircle

\* C19: the tithi index is floor(((moon - sun) mod 360) / 12), in 0..29; the
\* number reported is the index + 1, in 1..30, and the paksha is Shukla
\* exactly when the index is below 15, Krishna otherwise.
C19_TithiIndexAndPaksha ==
    "panchanga" \in computed =>
        LET index == CHOOSE t \in 0..29 :
                         /\ t * 12 * DegreeUnits <= ElongationUnits
                         /\ ElongationUnits < (t + 1) * 12 * DegreeUnits
        IN  /\ "tithi" \in DOMAIN panchanga
            /\ panchanga.tithi.number = index + 1
            /\ panchanga.tithi.number \in 1..30
            /\ panchanga.tithi.paksha = IF index < 15 THEN "Shukla" ELSE "Krishna"

\* C20: the karana index is floor(((moon - sun) mod 360) / 6), in 0..59; its
\* name is Kimstughna for 0, Shakuni, Chatushpada, Nagava for 57, 58, 59 and
\* entry (index - 1) mod 7 of Bava, Balava, Kaulava, Taitila, Gara, Vanija,
\* Vishti for every index 1..56.
C20_KaranaIndexAndName ==
    "panchanga" \in computed =>
        LET index == CHOOSE k \in 0..59 :
                         /\ k * 6 * DegreeUnits <= ElongationUnits
                         /\ ElongationUnits < (k + 1) * 6 * DegreeUnits
            repeating == << "Bava", "Balava", "Kaulava", "Taitila", "Gara", "Vanija",
                            "Vishti" >>
        IN  /\ "karana" \in DOMAIN panchanga
            /\ panchanga.karana.number = index + 1
            /\ index = 0 => panchanga.karana.name = "Kimstughna"
            /\ index = 57 => panchanga.karana.name = "Shakuni"
            /\ index = 58 => panchanga.karana.name = "Chatushpada"
            /\ index = 59 => panchanga.karana.name = "Nagava"
            /\ index \in 1..56 => panchanga.karana.name = repeating[((index - 1) % 7) + 1]


\* The panchanga of the same instant with the Moon half a circle further
\* from the Sun: its tithi index is 15 more, or 15 less.
OppositeMoonPanchanga ==
    LET moon == planet_positions["Moon"]
        opposite == [ units |-> (moon.longitude + 180 * DegreeUnits) % FullCircle,
                      ulps  |-> moon.longitude_ulps ]
    IN  compute_panchanga(Double(planet_positions["Sun"]), opposite, jd, tz_offset,
                          sunrise_jd)

\* The panchanga and that of the opposite Moon both report a tithi, and the
\* two tithi indices are 15 apart.
TithiPair ==
    /\ "panchanga" \in computed
    /\ "tithi" \in DOMAIN panchanga
    /\ "tithi" \in DOMAIN OppositeMoonPanchanga
    /\ (panchanga.tithi.number - OppositeMoonPanchanga.tithi.number) \in {-15, 15}

\* C21 as stated: the tithi table is 15 names repeated twice, so the name
\* reported for index i in 0..14 is the name reported for index i + 15.
C21_TithiNamesRepeatTwice ==
    TithiPair => panchanga.tithi.name = OppositeMoonPanchanga.tithi.name

\* C21: the name reported for index i in 0..13 is the name reported for
\* index i + 15; index 14 is named Purnima and index 29 Amavasya.
C21_TithiNamesRepeatButLast ==
    TithiPair =>
        LET here  == panchanga.tithi
            there == OppositeMoonPanchanga.tithi
        IN  /\ here.number \notin {15, 30} => here.name = there.name
            /\ here.number = 15 => (here.name = "Purnima" /\ there.name = "Amavasya")
            /\ here.number = 30 => (here.name = "Amavasya" /\ there.name = "Purnima")

\* The full moon: the Moon in the last 12 degrees before the opposition is
\* on Purnima, and half a circle further it is on Amavasya.
C21_Witness ==
    /\ "panchanga" \in computed
    /\ "tithi" \in DOMAIN panchanga
    /\ panchanga.tithi.number = 15
    /\ panchanga.tithi.name = "Purnima"
    /\ panchanga.tithi.paksha = "Shukla"
    /\ TithiPair
    /\ OppositeMoonPanchanga.tithi.number = 30
    /\ OppositeMoonPanchanga.tithi.name = "Amavasya"


\* The spans of a sign in D30 as the specification lists them: from (closed)
\* and to (open) in degrees, and the sign of the span's lord.
TrimsamsaSpans(is_odd) ==
    IF is_odd
    THEN << <<0, 5, 1>>, <<5, 10, 11>>, <<10, 18, 9>>, <<18, 25, 3>>, <<25, 30, 7>> >>
    ELSE << <<0, 5, 7>>, <<5, 12, 3>>, <<12, 20, 9>>, <<20, 25, 11>>, <<25, 30, 1>> >>

\* The spans of its sign that contain the longitude's degree-in-sign.
SpansContaining(longitude) ==
    LET spans  == TrimsamsaSpans(SignContaining(longitude) % 2 = 1)
        degree == longitude - (SignContaining(longitude) - 1) * 30 * DegreeUnits
    IN  { k \in 1..Len(spans) :
            spans[k][1] * DegreeUnits <= degree /\ degree < spans[k][2] * DegreeUnits }

\* The longitude is in exactly one span, the D30 sign reported for it is the
\* sign of that span's lord, and the loop of _d30_sign returns from inside.
TrimsamsaOfUniqueSpan(longitude, reported) ==
    LET is_odd == SignContaining(longitude) % 2 = 1
        spans  == TrimsamsaSpans(is_odd)
        table  == IF is_odd THEN TRIMSAMSA_ODD ELSE TRIMSAMSA_EVEN
    IN  /\ Cardinality(SpansContaining(longitude)) = 1
        /\ \A k \in SpansContaining(longitude) : reported = spans[k][3]
        /\ TrimsamsaScan(longitude % (30 * DegreeUnits), table, 1, 0) \in 1..Len(table)

\* C22: the D30 sign of every longitude is the sign of the lord of the
\* unique span containing the degree-in-sign (odd signs 5 Mars, 5 Saturn,
\* 8 Jupiter, 7 Mercury, 5 Venus; even signs 5 Venus, 7 Mercury, 8 Jupiter,
\* 5 Saturn, 5 Mars; Mars 1, Saturn 11, Jupiter 9, Mercury 3, Venus 7); the
\* spans cover [0, 30) and the last-span fallback is never reached.
C22_D30SpanLord ==
    "divisional_charts" \in computed =>
        LET chart == ChartOf("D30")
        IN  /\ TrimsamsaOfUniqueSpan(ascendant_longitude, chart.lagna.rashi)
            /\ \A i \in 1..Len(chart.grahas) :
                   TrimsamsaOfUniqueSpan(planet_positions[chart.grahas[i].graha].longitude,
                                         chart.grahas[i].rashi)

\* The Moon at 12 degrees of Vrishabha, an even sign: Mercury's span has
\* just ended and Jupiter's begins, the D30 sign is the ninth.
C22_Witness ==
    /\ "divisional_charts" \in computed
    /\ planet_positions["Moon"].longitude = 42 * DegreeUnits
    /\ SpansContaining(planet_positions["Moon"].longitude) = {3}
    /\ ChartOf("D30").grahas[2].graha = "Moon"
    /\ ChartOf("D30").grahas[2].rashi = 9


\* The index of the part of its sign the longitude is in, the sign being cut
\* into n equal parts: floor((longitude mod 30) / (30 / n)).
PartIndex(longitude, n) ==
    LET degree == longitude - (SignContaining(longitude) - 1) * 30 * DegreeUnits
    IN  CHOOSE p \in 0..(n - 1) :
            /\ p * 30 * DegreeUnits <= n * degree
            /\ n * degree < (p + 1) * 30 * DegreeUnits

\* Count forward N from sign S; a negative N counts backward.
CountFrom(S, N) == ((S - 1 + N) % 12) + 1

\* The D60 sign as the specification has it.
ShashtiamsaRule(longitude) ==
    LET S == SignContaining(longitude)
        p == PartIndex(longitude, 60)
    IN  IF S % 2 = 1 THEN CountFrom(S, p) ELSE CountFrom(S, -p)

\* The D7, D10 and D12 signs as the specification has them.
SaptamsaRule(longitude) ==
    LET S  == SignContaining(longitude)
        S0 == IF S % 2 = 1 THEN S ELSE CountFrom(S, 6)
    IN  CountFrom(S0, PartIndex(longitude, 7))

DasamsaRule(longitude) ==
    LET S  == SignContaining(longitude)
        S0 == IF S % 2 = 1 THEN S ELSE CountFrom(S, 8)
    IN  CountFrom(S0, PartIndex(longitude, 10))

DwadasamsaRule(longitude) ==
    CountFrom(SignContaining(longitude), PartIndex(longitude, 12))

\* The sign the specification gives a longitude in the chart of the type.
RuleSign(type, longitude) ==
    CASE type = "D60" -> ShashtiamsaRule(longitude)
      [] type = "D7"  -> SaptamsaRule(longitude)
      [] type = "D10" -> DasamsaRule(longitude)
      [] type = "D12" -> DwadasamsaRule(longitude)

\* Every reference point of the chart of the given type has the sign the
\* specification gives its longitude.
ChartFollows(type) ==
    LET chart == ChartOf(type)
    IN  /\ chart.lagna.rashi = RuleSign(type, ascendant_longitude)
        /\ \A i \in 1..Len(chart.grahas) :
               chart.grahas[i].rashi =
                   RuleSign(type, planet_positions[chart.grahas[i].graha].longitude)

\* C23: with sign S and half-degree part index p in 0..59, the D60 sign is
\* (S - 1 + p) mod 12 + 1 when S is odd and (S - 1 - p) mod 12 + 1 when S is
\* even, and is always in 1..12.
C23_D60ForwardBackward ==
    "divisional_charts" \in computed =>
        /\ ChartFollows("D60")
        /\ ChartOf("D60").lagna.rashi \in 1..12
        /\ \A i \in 1..Len(ChartOf("D60").grahas) : ChartOf("D60").grahas[i].rashi \in 1..12

\* The Moon in the 14th half degree of Karka, an even sign: 13 signs back
\* from the fourth sign is the third, past the start of the zodiac.
C23_Witness ==
    /\ "divisional_charts" \in computed
    /\ planet_positions["Moon"].longitude = 96 * DegreeUnits + DegreeUnits \div 2
    /\ PartIndex(planet_positions["Moon"].longitude, 60) = 13
    /\ 4 - 1 - 13 < 0
    /\ ChartOf("D60").grahas[2].graha = "Moon"
    /\ ChartOf("D60").grahas[2].rashi = 3

EphemerisCallsOf(name) ==
    { i \in 1..Len(trace) : trace[i].kind = "ephemeris" /\ trace[i].name = name }

\* The derivation components that use the named output of the ephemeris.
UsersOf(name) ==
    CASE name = "compute_all_planets" ->
             { "compute_graha_positions", "compute_all_divisional_charts",
               "compute_mahadasha", "compute_panchanga", "compute_bhinnashtakavarga" }
      [] name = "compute_houses" ->
             { "compute_lagna", "compute_bhavas", "compute_graha_positions",
               "compute_all_divisional_charts", "compute_bhinnashtakavarga" }
      [] name = "compute_sunrise" -> { "compute_panchanga" }

\* The output is computed at most once, and once in a request that has
\* returned.
ComputedOnce(name) ==
    /\ Cardinality(EphemerisCallsOf(name)) <= 1
    /\ pc = "returned" => Cardinality(EphemerisCallsOf(name)) = 1

\* The output is computed by compute_full_chart itself, before any
\* component that uses it is called.
PassedIn(name) ==
    /\ \A i \in EphemerisCallsOf(name) : trace[i].by = "compute_full_chart"
    /\ \A j \in 1..Len(trace) :
           (trace[j].kind = "component" /\ trace[j].name \in UsersOf(name)) =>
               \E i \in EphemerisCallsOf(name) : i < j

\* C25 as stated: within one full-chart request the planet positions, the
\* house cusps and ascendant, and the sunrise instant are each computed
\* exactly once, before the components that use them run, and are passed
\* into those components, not computed inside any of them.
C25_EphemerisOncePassedIn ==
    \A name \in { "compute_all_planets", "compute_houses", "compute_sunrise" } :
        ComputedOnce(name) /\ PassedIn(name)

\* C25: the planet positions and the house cusps and ascendant are each
\* computed exactly once, before the components that use them, and passed
\* in; the sunrise instant is computed exactly once as well, but by
\* compute_panchanga itself, right after it is called.
C25_OncePerRequestSunriseInside ==
    /\ \A name \in { "compute_all_planets", "compute_houses" } :
           ComputedOnce(name) /\ PassedIn(name)
    /\ ComputedOnce("compute_sunrise")
    /\ \A i \in EphemerisCallsOf("compute_sunrise") :
           /\ trace[i].by = "compute_panchanga"
           /\ i > 1
           /\ trace[i - 1] = ComponentCall("compute_panchanga")
    /\ \A i \in 1..Len(trace) :
           trace[i].kind = "ephemeris" => trace[i].by \in { "compute_full_chart", "compute_panchanga" }

\* A request that has returned: the positions were asked for second and the
\* houses third, before all nine components, and the sunrise tenth, inside
\* the panchanga component, the eighth of them.
C25_Witness ==
    /\ pc = "returned"
    /\ Len(trace) = 12
    /\ EphemerisCallsOf("compute_all_planets") = {2}
    /\ EphemerisCallsOf("compute_houses") = {3}
    /\ EphemerisCallsOf("compute_sunrise") = {10}
    /\ trace[9] = ComponentCall("compute_panchanga")
    /\ trace[10].by = "compute_panchanga"
    /\ "vara" \in DOMAIN panchanga


\* The nesting depth of a list of periods: 0 for none, 1 for periods
\* without children.
RECURSIVE Depth(_)
Depth(periods) ==
    IF periods = <<>> THEN 0
    ELSE LET below == { Depth(Children(periods[i])) : i \in 1..Len(periods) }
         IN  1 + CHOOSE d \in below : \A e \in below : e <= d

\* Every period of the list, and every period below it, has no children or
\* exactly 9.
RECURSIVE NineOrNone(_)
NineOrNone(periods) ==
    \A i \in 1..Len(periods) :
        /\ Len(Children(periods[i])) \in {0, 9}
        /\ NineOrNone(Children(periods[i]))

RECURSIVE ChildrenTileParent(_)
ChildrenTileParent(periods) ==
    \A i \in 1..Len(periods) :
        LET children == Children(periods[i])
        IN  children /= <<>> =>
                /\ children[1].start = periods[i].start
                /\ children[Len(children)].end = periods[i].end
                /\ ChildrenTileParent(children)

\* C27: at levels 2 or 3 the 9 children of every parent exactly tile the
\* parent's interval: the first child starts at the parent's start and the
\* last child ends at the parent's end, as reported instants.
C27_ChildrenTileParent ==
    ("dasha" \in computed /\ levels \in {2, 3}) => ChildrenTileParent(dasha)


\* The cusps of the equal house system: each 30 degrees after the one before.
EqualCusps(cusp_list) ==
    \A i \in 0..11 : cusp_list[i + 1] = (cusp_list[1] + 30 * i * DegreeUnits) % FullCircle

\* floor(((L - cusp[0]) mod 360) / 30) + 1.
EqualHouseOf(longitude, cusp_list) ==
    CHOOSE h \in 1..12 :
        LET ahead == (longitude - cusp_list[1]) % FullCircle
        IN  (h - 1) * 30 * DegreeUnits <= ahead /\ ahead < h * 30 * DegreeUnits

\* C28: with equal-house cusps the interval scan of get_house_for_longitude
\* returns floor(((L - cusp[0]) mod 360) / 30) + 1 for every longitude L: the
\* one interval that contains L is the one the equal-house formula names.
C28_ScanAgreesWithEqualHouse ==
    ("grahas" \in computed /\ EqualCusps(cusps)) =>
        \A g \in 1..Len(grahas) :
            /\ { i \in 1..12 : InHouseInterval(grahas[g].longitude, cusps, i) } =
                   { EqualHouseOf(grahas[g].longitude, cusps) }
            /\ grahas[g].house = EqualHouseOf(grahas[g].longitude, cusps)

\* Equal houses from an ascendant at 137 degrees: the Moon exactly on the
\* 9th cusp, past 360 degrees, is in the 9th house, which the wrapping
\* interval of the scan gives.
C28_Witness ==
    /\ "grahas" \in computed
    /\ EqualCusps(cusps)
    /\ cusps[1] = 137 * DegreeUnits
    /\ cusps[8] > cusps[9]
    /\ grahas[2].graha = "Moon"
    /\ grahas[2].longitude = cusps[9]
    /\ grahas[2].house = 9


\* The same positions with the lunar nodes elsewhere: Rahu on the given
\* longitude and Ketu opposite.
WithNodesAt(positions, longitude) ==
    [ positions EXCEPT !["Rahu"].longitude = longitude,
                       !["Ketu"].longitude = (longitude + 180 * DegreeUnits) % FullCircle ]

\* How many signs further the nodes are in the input compared with.
NodeShifts == {1, 5, 8}

\* C29: the Ashtakavarga does not depend on the lunar nodes: an input that
\* agrees on the 7 classical planets and the ascendant and differs in Rahu
\* and Ketu yields the same BAV vectors for all 7 planets and the same SAV.
C29_NodesDoNotCount ==
    \A signs \in NodeShifts :
        LET L == (planet_positions["Rahu"].longitude + signs * 30 * DegreeUnits) % FullCircle
            elsewhere == compute_bhinnashtakavarga(WithNodesAt(planet_positions, L),
                                                   ascendant_longitude)
        IN  /\ "bav" \in computed =>
                  /\ DOMAIN bav = { "Sun", "Moon", "Mars", "Mercury", "Jupiter", "Venus",
                                    "Saturn" }
                  /\ elsewhere = bav
            /\ "sav" \in computed => compute_sarvashtakavarga(elsewhere) = sav

\* Rahu moved into another rashi than in the reference chart, every other
\* point where the reference chart has it: BAV and SAV are those of the
\* reference chart.
C29_Witness ==
    /\ "sav" \in computed
    /\ ascendant_longitude = SaiSankalp.lagna
    /\ \A i \in 1..Len(ASHTAKAVARGA_PLANETS) :
           planet_positions[ASHTAKAVARGA_PLANETS[i]].longitude =
               SaiSankalp.planets[ASHTAKAVARGA_PLANETS[i]].longitude
    /\ longitude_to_rashi(planet_positions["Rahu"].longitude) #
           longitude_to_rashi(SaiSankalp.planets["Rahu"].longitude)
    /\ bav = compute_bhinnashtakavarga(compute_all_planets(SaiSankalp.planets),
                                        SaiSankalp.lagna)
    /\ sav = compute_sarvashtakavarga(bav)


\* C30: the karana reported is one of the two halves of the tithi reported:
\* karana.number is 2 * tithi.number - 1 or 2 * tithi.number.
C30_KaranaHalvesTithi ==
    ("panchanga" \in computed /\ "karana" \in DOMAIN panchanga) =>
        /\ "tithi" \in DOMAIN panchanga
        /\ panchanga.karana.number \in
               { 2 * panchanga.tithi.number - 1, 2 * panchanga.tithi.number }

\* The Moon one unit before 180 degrees ahead of the Sun: the 30th karana,
\* the second half of the 15th tithi.
C30_Witness ==
    /\ "panchanga" \in computed
    /\ "karana" \in DOMAIN panchanga
    /\ ElongationUnits = 180 * DegreeUnits - 1
    /\ panchanga.tithi.number = 15
    /\ panchanga.karana.number = 30

====
